---- MODULE Spec2Model ----
(***************************************************************************)
(* Slide Patcher (App.tsx): the slide/annotation document model, the       *)
(* bounded undo/redo history and the pointer/keyboard editing state        *)
(* machine, modelled as one state machine.  One action per event handler   *)
(* or asynchronous continuation.                                           *)
(*                                                                         *)
(* JavaScript reference semantics are kept where the code relies on them:  *)
(* a slide is a heap cell (heap[ref]) that the handlers mutate in place,   *)
(* `slides` and every closure captured by a pending asynchronous operation *)
(* are arrays of references to such cells.                                 *)
(***************************************************************************)
EXTENDS Integers, Sequences, FiniteSets, TLC

\* ------------------------------------------------------------------ bounds
\* Number of events delivered in one explored session.
MaxSteps == 4
\* Number of events delivered in a session that starts with a long history.
FullSteps == 5
ResizeSteps == 3
ExportSteps == 3
LiveSteps == 5
ScanSteps == 7
\* Size of the regions handed to detectTextColor and number of calls.
RegionWidth == 3
RegionHeight == 3
DetectSteps == 1
\* Length of the recognised texts and number of normalisations.
MaxTextLen == 4
KeySteps == 4
NormalizeSteps == 1

\* ------------------------------------------------------- program constants
PptxWidth == 10
PptxHeightMilli == 5625
HistoryLimit == 50
HistoryIndexCap == 49
MinDrawSize == 5
MinResizeSize == 10
MinOcrSize == 10
HandleHitSize == 20
TextareaHandleReach == 20
DefaultTextWidth == 800
DefaultTextHeight == 150
DefaultFontSize == 100

\* ------------------------------------------------------------ null values
NoId == -1
ScanRoiId == 0
NoFontSize == 0
NoContent == "undefined"
NoHandle == "none"
NoDraft == [id |-> NoId]
NoRef == 0

\* ------------------------------------------------------------ input sets
\* Pointer positions in canvas pixels (getMousePos).
PosSet == { <<20, 20>>, <<23, 60>>, <<40, 40>>, <<60, 60>>, <<70, 5>> }
\* Colours the eyedropper can read from the rendered surface (upper case hex).
PixelColors == { "#FFFFFF", "#FF0000" }
\* Colours the colour input can deliver (lower case hex).
PickerColors == { "#00ff00" }
\* Values typed into the textarea.
TypedContents == { "A" }
\* Values typed into the font size input (0 stands for a non-numeric string).
TypedFontSizes == { 0, 50 }
\* Slides a finished ingestion delivers: none (unsupported type, empty or
\* failed file), one (an image) or two (a two-page PDF).
LoadedCounts == { 0, 1, 2 }
RasterSizes == { << 1000, 600 >>, << 1600, 900 >> }
\* Thumbnails that can be clicked (0-based).
SlideIndices == 0..3
\* What the OCR worker answers: text, only white space, or a rejection.
OcrOutcomes == { "text", "empty", "error" }
\* The recognised text after trimming and normalisation.
OcrTexts == { "T" }
\* detectTextColor's answers.
DetectedColors == { "#000000" }
Tools == { "select", "mask", "text", "eyedropper", "scan", "pan" }
\* Values standing for no region, no colour and no text.
NoRegion == [width |-> 0, height |-> 0, data |-> << >>]
NoColor == << >>
NoText == << 0 >>
NoZoom == 0
\* The zoom in tenths: 1.0, and the limits 0.1 and 5 of lines 981 and 984.
DefaultZoom == 10
MinZoom == 1
MaxZoom == 50
Handles == << "nw", "n", "ne", "e", "se", "s", "sw", "w" >>

VARIABLES
    heap,                  \* ref -> slide object {id, objects}
    slides,                \* useState slides: array of refs
    currentSlideIndex,
    nextSlideId,           \* generateUUID for slides
    nextId,                \* crypto.randomUUID / generateUUID for objects
    history,
    historyIndex,
    isInternalStateUpdate,
    resetTimers,           \* pending setTimeout(..., 0) callbacks of undo/redo
    activeTool,
    selectedObjectId,
    editingTextId,
    currentColor,
    maskColor,
    textColor,
    activeHandle,
    isDrawing,
    isDragging,
    isPanning,
    isPanningMode,
    startPos,
    dragOffset,
    currentObjectRef,
    tempFontSize,
    focus,                 \* document.activeElement: none, font, color, textarea
    isProcessing,
    isScanning,
    uploads,               \* pending handleFileUpload calls (their closures)
    ocrs,                  \* pending performOCR calls (their closures)
    canvasSize,            \* slide id -> << canvas.width, canvas.height >>
    isExporting,
    exports,               \* presentations whose pres.writeFile has not settled
    downloads,             \* PNG links whose setTimeout(link.click) has not fired
    files,                 \* files handed to the browser for download, oldest first
    region,                \* the cropped pixels handed to detectTextColor
    detected,              \* what detectTextColor returned for them
    recognized,            \* data.text of the OCR worker, as code points
    cleanedText,           \* cleanedText of performOCR for it
    zoom,                  \* useState zoom in tenths; NoZoom is null (fit to the window)
    crashed,               \* an uncaught TypeError unmounted the component tree
    lastEvent,             \* the handler or continuation that ran last
    obs,                   \* observer: what the session has seen so far (no program state)
    budget                 \* events left in this session

docVars == << heap, slides, currentSlideIndex, nextSlideId, nextId >>
histVars == << history, historyIndex, isInternalStateUpdate, resetTimers >>
toolVars == << activeTool, selectedObjectId, editingTextId, currentColor, maskColor, textColor >>
gestureVars == << activeHandle, isDrawing, isDragging, isPanning, isPanningMode, startPos, dragOffset, currentObjectRef >>
inputVars == << tempFontSize, focus >>
asyncVars == << isProcessing, isScanning, uploads, ocrs >>
exportVars == << isExporting, exports, downloads, files >>
ocrVars == << region, detected, recognized, cleanedText >>
vars == << docVars, histVars, toolVars, gestureVars, inputVars, asyncVars, canvasSize, exportVars,
          ocrVars, zoom, crashed, lastEvent, obs, budget >>

\* ------------------------------------------------------------- sequences
Min(a, b) == IF a < b THEN a ELSE b
Max(a, b) == IF a > b THEN a ELSE b
Abs(a) == IF a < 0 THEN -a ELSE a

\* Array.prototype.slice(0, n)
SliceTo(s, n) == SubSeq(s, 1, Min(Max(n, 0), Len(s)))

\* Array.prototype.findIndex, 1-based; 0 when nothing matches.  tests[i] is
\* the callback's answer for the i-th element.
FindIndex(tests) ==
    IF \E i \in 1..Len(tests) : tests[i]
    THEN CHOOSE i \in 1..Len(tests) : tests[i] /\ \A j \in 1..(i - 1) : ~tests[j]
    ELSE 0

\* A search from the bottom of the paint order: the first match.
FindBottomIndex(tests) ==
    IF \E i \in 1..Len(tests) : tests[i]
    THEN CHOOSE i \in 1..Len(tests) : tests[i] /\ \A j \in 1..(i - 1) : ~tests[j]
    ELSE 0

\* [...s].reverse().findIndex mapped back to the real index: the last match
FindLastIndex(tests) ==
    IF \E i \in 1..Len(tests) : tests[i]
    THEN CHOOSE i \in 1..Len(tests) : tests[i] /\ \A j \in (i + 1)..Len(tests) : ~tests[j]
    ELSE 0

\* objects.splice(i, 1)
RemoveAt(s, i) == SubSeq(s, 1, i - 1) \o SubSeq(s, i + 1, Len(s))

\* ------------------------------------------------------------ the heap
\* heap is a sequence of slide objects; a reference is an index into it.
\* Refs are renumbered after every step in the order slides, ocrs, uploads,
\* history, so that two states differing only in addresses are one state.

Slide(id, objects) == [id |-> id, objects |-> objects]

RECURSIVE Dedup(_, _)
Dedup(s, seen) ==
    IF s = << >> THEN << >>
    ELSE IF Head(s) \in seen THEN Dedup(Tail(s), seen)
    ELSE << Head(s) >> \o Dedup(Tail(s), seen \cup { Head(s) })

RECURSIVE Flatten(_)
Flatten(ss) == IF ss = << >> THEN << >> ELSE Head(ss) \o Flatten(Tail(ss))

ClosureRefs(cs) == Flatten([k \in 1..Len(cs) |-> cs[k].slides])

EntryRefs(e) ==
    LET shared == SelectSeq(e.slides, LAMBDA hs : hs.shared # NoRef)
    IN  [k \in 1..Len(shared) |-> shared[k].shared]

HistoryRefs(hist) == Flatten([k \in 1..Len(hist) |-> EntryRefs(hist[k])])

RefOrder(sl, oc, up, hist) ==
    Dedup(sl \o ClosureRefs(oc) \o ClosureRefs(up) \o HistoryRefs(hist), {})

NewRef(order, r) == CHOOSE k \in 1..Len(order) : order[k] = r

RenameRefs(order, refs) == [i \in 1..Len(refs) |-> NewRef(order, refs[i])]

RenameClosures(order, cs) ==
    [k \in 1..Len(cs) |-> [cs[k] EXCEPT !.slides = RenameRefs(order, cs[k].slides)]]

RenameEntry(order, e) ==
    [e EXCEPT !.slides =
        [i \in 1..Len(e.slides) |->
            IF e.slides[i].shared = NoRef THEN e.slides[i]
            ELSE [e.slides[i] EXCEPT !.shared = NewRef(order, e.slides[i].shared)]]]

RenameHistory(order, hist) ==
    IF order = [k \in 1..Len(order) |-> k] THEN hist
    ELSE [k \in 1..Len(hist) |-> RenameEntry(order, hist[k])]

\* The next values of every variable that holds references.
Commit(h, sl, hist, oc, up) ==
    LET order == RefOrder(sl, oc, up, hist)
    IN  /\ heap' = [k \in 1..Len(order) |-> h[order[k]]]
        /\ slides' = RenameRefs(order, sl)
        /\ ocrs' = RenameClosures(order, oc)
        /\ uploads' = RenameClosures(order, up)
        /\ history' = RenameHistory(order, hist)

\* ------------------------------------------------------ derived values
\* const currentSlide = slides[currentSlideIndex]            (line 417)
HasCurrentSlide == currentSlideIndex >= 0 /\ currentSlideIndex < Len(slides)
currentSlideRef == slides[currentSlideIndex + 1]
currentObjects == heap[currentSlideRef].objects

HasObject(objs, id) == \E i \in 1..Len(objs) : objs[i].id = id
ObjectById(objs, id) == objs[FindIndex([i \in 1..Len(objs) |-> objs[i].id = id])]

\* const selectedObject = currentSlide?.objects.find(...)    (line 418)
HasSelectedObject == HasCurrentSlide /\ HasObject(currentObjects, selectedObjectId)
selectedObject == ObjectById(currentObjects, selectedObjectId)
\* const editingObject = currentSlide?.objects.find(...)     (line 419)
HasEditingObject == HasCurrentSlide /\ HasObject(currentObjects, editingTextId)
editingObject == ObjectById(currentObjects, editingTextId)

\* The annotation sequences of the displayed document, slide by slide.
LiveSlides(h, sl) == [i \in 1..Len(sl) |-> h[sl[i]]]
Annotations == LiveSlides(heap, slides)

\* ------------------------------------------------------------- history
\* What `objects: s.objects` would store: the live array itself.
SnapshotSlideAliased(h, r) == [id |-> h[r].id, objects |-> << >>, shared |-> r]

\* JSON.parse(JSON.stringify(s.objects)): an equal value held by no one else.
SnapshotSlide(h, r) == [id |-> h[r].id, objects |-> h[r].objects, shared |-> NoRef]

\* The objects a history entry holds for one of its slides.
EntryObjects(hs) == IF hs.shared = NoRef THEN hs.objects ELSE heap[hs.shared].objects

NewState(h, refs, index) ==
    [slides |-> [i \in 1..Len(refs) |-> SnapshotSlide(h, refs[i])],
     currentSlideIndex |-> index]

\* The same updater without its length test.
HistoryPushNoEvict(prev, hIdx, newState) == Append(SliceTo(prev, hIdx + 1), newState)

\* The updater given to setHistory; hIdx is the historyIndex of the closure.
HistoryPush(prev, hIdx, newState) ==
    LET newHistory == Append(SliceTo(prev, hIdx + 1), newState)
    IN  IF Len(newHistory) > HistoryLimit THEN Tail(newHistory) ELSE newHistory

\* The updater given to setHistoryIndex.
IndexPush(prevIdx) == Min(prevIdx + 1, HistoryIndexCap)

\* saveToHistory without its first line.
SaveToHistoryUnguarded(hs, guard, hIdx, h, refs, index) ==
    [history |-> HistoryPush(hs.history, hIdx, NewState(h, refs, index)),
     historyIndex |-> IndexPush(hs.historyIndex)]

\* saveToHistory(currentSlides, index) applied to the pending history state hs;
\* guard is isInternalStateUpdate.current at the call.
SaveToHistory(hs, guard, hIdx, h, refs, index) ==
    IF guard THEN hs
    ELSE [history |-> HistoryPush(hs.history, hIdx, NewState(h, refs, index)),
          historyIndex |-> IndexPush(hs.historyIndex)]

HistNow == [history |-> history, historyIndex |-> historyIndex]

\* A handler of the current render requests one snapshot of the live slides.
Snapshot(h) == SaveToHistory(HistNow, isInternalStateUpdate, historyIndex, h, slides, currentSlideIndex)

\* ------------------------------------------------------------- objects
MaskObject(id, x, y, w, h, color) ==
    [id |-> id, type |-> "mask", x |-> x, y |-> y, width |-> w, height |-> h,
     content |-> NoContent, color |-> color, fontSize |-> NoFontSize]

TextObject(id, x, y, w, h, content, color, fontSize) ==
    [id |-> id, type |-> "text", x |-> x, y |-> y, width |-> w, height |-> h,
     content |-> content, color |-> color, fontSize |-> fontSize]

\* pos.x >= obj.x && pos.x <= obj.x + obj.width && ...   (lines 595-596)
Contains(obj, pos) ==
    /\ pos[1] >= obj.x /\ pos[1] <= obj.x + obj.width
    /\ pos[2] >= obj.y /\ pos[2] <= obj.y + obj.height

\* getHandles(obj), each coordinate doubled to keep width / 2 exact.
getHandles2(obj) ==
    [nw |-> << 2 * obj.x, 2 * obj.y >>,
     n  |-> << 2 * obj.x + obj.width, 2 * obj.y >>,
     ne |-> << 2 * (obj.x + obj.width), 2 * obj.y >>,
     e  |-> << 2 * (obj.x + obj.width), 2 * obj.y + obj.height >>,
     se |-> << 2 * (obj.x + obj.width), 2 * (obj.y + obj.height) >>,
     s  |-> << 2 * obj.x + obj.width, 2 * (obj.y + obj.height) >>,
     sw |-> << 2 * obj.x, 2 * (obj.y + obj.height) >>,
     w  |-> << 2 * obj.x, 2 * obj.y + obj.height >>]

\* pos within reach of the handle at doubled point h2: |pos - h| <= reach
NearHandle(h2, pos, reach) ==
    /\ 2 * pos[1] >= h2[1] - 2 * reach /\ 2 * pos[1] <= h2[1] + 2 * reach
    /\ 2 * pos[2] >= h2[2] - 2 * reach /\ 2 * pos[2] <= h2[2] + 2 * reach

\* Object.keys(handles).find(key => ...) with a hit box of handleSize
HitHandle(obj, pos, handleSize) ==
    LET k == FindIndex([i \in 1..Len(Handles) |-> NearHandle(getHandles2(obj)[Handles[i]], pos, handleSize \div 2)])
    IN  IF k = 0 THEN NoHandle ELSE Handles[k]

\* ------------------------------------------------------------ observer
\* obs records what an onlooker of the session remembers; no handler reads it.
\*   prev, prevIndex : the annotation sequences and the cursor before the last event
\*   quiet           : whether nothing was in progress before the last event
\*   base            : the annotation sequences when the gesture in progress (or, when
\*                     none is, the last event) began
\*   gesture         : "drag"/"resize"/"draw" from the pointer-down of such a gesture
\*                     through its moves; right after its pointer-up "dragged",
\*                     "resized", "drawn" (mask committed) or "discarded"
\*   trip            : a run of recorded edits and the undos that follow it

\* No pointer gesture, in-place text edit or colour / font size input in progress.
Quiescent ==
    /\ ~isDrawing /\ ~isDragging /\ ~isPanning /\ activeHandle = NoHandle
    /\ editingTextId = NoId /\ focus = "none"

NoTrip == [phase |-> "none", base |-> << >>, edits |-> 0, undos |-> 0]

ObsInit == [prev |-> Annotations, prevIndex |-> historyIndex, quiet |-> TRUE, base |-> Annotations,
            gesture |-> "none", trip |-> NoTrip]

\* The step appended a snapshot: an edit was recorded.
Recorded ==
    /\ lastEvent' \notin { "undo", "redo", "uploadDone", "resetInternalStateUpdate" }
    /\ << history', historyIndex' >> # << history, historyIndex >>

BaseNow == IF Quiescent THEN Annotations ELSE obs.base

GestureNext ==
    IF lastEvent' = "mouseDown"
    THEN IF ~Quiescent THEN "none"
         ELSE IF activeHandle' # NoHandle THEN "resize"
         ELSE IF isDragging' THEN "drag"
         ELSE IF isDrawing' /\ currentObjectRef'.type = "mask" THEN "draw"
         ELSE "none"
    ELSE IF lastEvent' \in { "mouseMove", "resetInternalStateUpdate" }
    THEN IF obs.gesture \in { "drag", "resize", "draw" } THEN obs.gesture ELSE "none"
    ELSE IF lastEvent' = "mouseUp"
    THEN IF obs.gesture = "drag" THEN "dragged"
         ELSE IF obs.gesture = "resize" THEN "resized"
         ELSE IF obs.gesture = "draw"
         THEN IF Len(Annotations') = Len(Annotations) /\ Annotations' # Annotations
              THEN "drawn" ELSE "discarded"
         ELSE "none"
    ELSE "none"

TripNext ==
    LET trip == obs.trip
    IN  IF lastEvent' = "resetInternalStateUpdate" THEN trip
        ELSE IF lastEvent' = "undo"
        THEN IF historyIndex' = historyIndex - 1 /\ trip.phase # "none" /\ trip.undos < trip.edits
             THEN [trip EXCEPT !.phase = "undos", !.undos = @ + 1]
             ELSE NoTrip
        ELSE IF Recorded
        THEN IF trip.phase = "edits" THEN [trip EXCEPT !.edits = @ + 1]
             ELSE [phase |-> "edits", base |-> BaseNow, edits |-> 1, undos |-> 0]
        ELSE IF /\ trip.phase = "edits"
                /\ lastEvent' \notin { "redo", "uploadDone", "ocrDone" }
                /\ ~(Quiescent' /\ Annotations' # Annotations)
        THEN trip
        ELSE NoTrip

Observe ==
    obs' = [prev |-> Annotations, prevIndex |-> historyIndex, quiet |-> Quiescent, base |-> BaseNow,
            gesture |-> GestureNext, trip |-> TripNext]

\* ---------------------------------------------------------------- init
\* The state after construction (lines 39-77).
InitEmpty ==
    /\ heap = << >> /\ slides = << >> /\ currentSlideIndex = 0
    /\ nextSlideId = 1 /\ nextId = 1
    /\ history = << >> /\ historyIndex = -1
    /\ isInternalStateUpdate = FALSE /\ resetTimers = 0
    /\ activeTool = "select" /\ selectedObjectId = NoId /\ editingTextId = NoId
    /\ currentColor = "#FFFFFF" /\ maskColor = "#FFFFFF" /\ textColor = "#000000"
    /\ activeHandle = NoHandle /\ isDrawing = FALSE /\ isDragging = FALSE
    /\ isPanning = FALSE /\ isPanningMode = FALSE
    /\ startPos = << 0, 0 >> /\ dragOffset = << 0, 0 >> /\ currentObjectRef = NoDraft
    /\ tempFontSize = 0 /\ focus = "none"
    /\ isProcessing = FALSE /\ isScanning = FALSE /\ uploads = << >> /\ ocrs = << >>
    /\ crashed = FALSE /\ lastEvent = "init"
    /\ obs = ObsInit

\* A session in progress: a two-page PDF was loaded, a mask was drawn on the
\* first slide from (20,20) to (60,60), a text box was placed at (40,40),
\* "A" was typed into it and the textarea lost focus.
InitMask == MaskObject(1, 20, 20, 40, 40, "#FFFFFF")
InitText(content) == TextObject(2, 40, 40, DefaultTextWidth, DefaultTextHeight, content, "#000000", DefaultFontSize)
InitEntry(objs) ==
    [slides |-> << [id |-> 1, objects |-> objs, shared |-> NoRef],
                   [id |-> 2, objects |-> << >>, shared |-> NoRef] >>,
     currentSlideIndex |-> 0]

\* ... and the + button of the font size was then clicked `clicks` times.
InitSized(clicks) == [InitText("A") EXCEPT !.fontSize = DefaultFontSize + clicks]

InitHistory(clicks) ==
    << InitEntry(<< >>), InitEntry(<< InitMask >>), InitEntry(<< InitMask, InitText("") >>) >>
    \o [j \in 1..(clicks + 1) |-> InitEntry(<< InitMask, InitSized(j - 1) >>)]

InitLoadedWith(tool, start, scanning, pending, clicks) ==
    /\ heap = << Slide(1, << InitMask, InitSized(clicks) >>), Slide(2, << >>) >>
    /\ slides = << 1, 2 >> /\ currentSlideIndex = 0
    /\ nextSlideId = 3 /\ nextId = 3
    /\ history = InitHistory(clicks)
    /\ historyIndex = clicks + 3
    /\ isInternalStateUpdate = FALSE /\ resetTimers = 0
    /\ activeTool = tool /\ selectedObjectId = 2 /\ editingTextId = NoId
    /\ currentColor = "#000000" /\ maskColor = "#FFFFFF" /\ textColor = "#000000"
    /\ activeHandle = NoHandle /\ isDrawing = FALSE /\ isDragging = FALSE
    /\ isPanning = FALSE /\ isPanningMode = FALSE
    /\ startPos = start /\ dragOffset = << 0, 0 >> /\ currentObjectRef = NoDraft
    /\ tempFontSize = DefaultFontSize + clicks /\ focus = "none"
    /\ isProcessing = FALSE /\ isScanning = scanning /\ uploads = << >> /\ ocrs = pending
    /\ crashed = FALSE /\ lastEvent = "init"
    /\ obs = ObsInit

InitLoaded == InitLoadedWith("select", << 20, 20 >>, FALSE, << >>, 0)

\* The same session after R was pressed and a region was swept from (60,60)
\* to (70,5): the OCR worker has not answered yet.
InitRoi ==
    [id |-> ScanRoiId, type |-> "text", x |-> 60, y |-> 5, width |-> 10, height |-> 55,
     content |-> "", color |-> "#FFFFFF", fontSize |-> NoFontSize]

InitScanning ==
    InitLoadedWith("scan", << 60, 60 >>, TRUE,
                   << [slides |-> << 1, 2 >>, currentSlideIndex |-> 0, historyIndex |-> 3,
                       roi |-> InitRoi] >>, 0)

\* The same session with enough + clicks to leave one free place in history.
InitFull == InitLoadedWith("select", << 20, 20 >>, FALSE, << >>, HistoryLimit - 5)

\* Every slide loaded so far has a 1600 x 900 raster; no export was started.
InitCanvas == canvasSize = [id \in 1..(nextSlideId - 1) |-> << 1600, 900 >>]

InitExport == isExporting = FALSE /\ exports = << >> /\ downloads = << >> /\ files = << >>

\* useState<number | null>(null)                              (line 51)
InitView == zoom = NoZoom

\* No region and no text are being looked at.
InitOcr == region = NoRegion /\ detected = NoColor /\ recognized = << >> /\ cleanedText = NoText

Init == (InitEmpty \/ InitLoaded \/ InitScanning) /\ InitCanvas /\ InitExport /\ InitView /\ InitOcr /\ budget = MaxSteps

\* ------------------------------------------------------- event plumbing
\* One event is delivered to the mounted component.
Stepped(name) ==
    /\ ~crashed
    /\ budget > 0
    /\ budget' = budget - 1
    /\ lastEvent' = name

Delivered(name) == Stepped(name) /\ UNCHANGED << ocrVars, zoom >>

\* An event of the editor: only ingestion adds rasters, only the export
\* handlers touch the export state.
Event(name) == Delivered(name) /\ UNCHANGED << canvasSize, exportVars >>

\* The canvas is rendered (line 1356) and can receive pointer events.
CanvasMounted == ~isProcessing /\ Len(slides) > 0

\* The keydown listener that ignores a key only while an input has the focus.
KeyboardBlockedByInput == focus \in { "font", "color" }

\* The keydown listener's first test (lines 953-957).
KeyboardBlocked == editingTextId # NoId \/ focus # "none"

\* The sync effect of lines 522-526, run after the render that follows a
\* handler; handlerValue is what the handler itself left in tempFontSize.
SelectedFontSize == IF HasSelectedObject THEN selectedObject.fontSize ELSE NoFontSize

SyncTempFontSize(handlerValue) ==
    tempFontSize' =
        IF /\ (selectedObjectId' # selectedObjectId \/ SelectedFontSize' # SelectedFontSize)
           /\ HasSelectedObject'
           /\ selectedObject'.type = "text"
           /\ selectedObject'.fontSize # NoFontSize
        THEN selectedObject'.fontSize
        ELSE handlerValue

\* ------------------------------------------------------------ undo / redo
\* The setSlides updater of undo and redo (lines 101-104, 117-120): every
\* slide found in the entry becomes a new slide object holding a copy of the
\* entry's objects.
EntrySlideIndex(entry, id) == FindIndex([i \in 1..Len(entry.slides) |-> entry.slides[i].id = id])

RestoredCell(entry, cell) ==
    LET k == EntrySlideIndex(entry, cell.id)
    IN  IF k = 0 THEN cell ELSE Slide(cell.id, EntryObjects(entry.slides[k]))

\* What `objects: hs.objects` would leave behind: the entry and the restored
\* slide hold the same array.
RestoredEntryAliased(entry, refs) ==
    [entry EXCEPT !.slides =
        [k \in 1..Len(entry.slides) |->
            LET i == FindIndex([j \in 1..Len(slides) |-> heap[slides[j]].id = entry.slides[k].id])
            IN  IF i = 0 THEN entry.slides[k]
                ELSE [id |-> entry.slides[k].id, objects |-> << >>, shared |-> refs[i]]]]

\* The entry after objects: JSON.parse(JSON.stringify(hs.objects)) (lines 103,
\* 119): untouched, and sharing nothing with the restored slides (refs).
RestoredEntry(entry, refs) == entry

\* A restore that keeps only the slides found in the entry.
RestoreSlidesOfEntry(entry) ==
    LET kept == SelectSeq([i \in 1..Len(slides) |-> i],
                          LAMBDA i : EntrySlideIndex(entry, heap[slides[i]].id) # 0)
    IN  [j \in 1..Len(kept) |-> Len(heap) + kept[j]]

\* heap and slides after the restore: matched slides get fresh cells.
RestoreHeap(entry) ==
    heap \o [i \in 1..Len(slides) |-> RestoredCell(entry, heap[slides[i]])]

RestoreSlides(entry) ==
    [i \in 1..Len(slides) |->
        IF EntrySlideIndex(entry, heap[slides[i]].id) = 0 THEN slides[i] ELSE Len(heap) + i]

\* Moving the cursor to index target (0-based) and restoring that entry.
Restore(target) ==
    IF target + 1 > Len(history)
    THEN \* history[target] is undefined: prevState.slides throws after the guard was set
         /\ isInternalStateUpdate' = TRUE
         /\ crashed' = TRUE
         /\ UNCHANGED << docVars, history, historyIndex, resetTimers, toolVars, gestureVars,
                         inputVars, asyncVars >>
    ELSE LET entry == history[target + 1]
         IN  /\ isInternalStateUpdate' = TRUE
             /\ Commit(RestoreHeap(entry), RestoreSlides(entry),
                       [history EXCEPT ![target + 1] = RestoredEntry(entry, RestoreSlides(entry))],
                       ocrs, uploads)
             /\ currentSlideIndex' = entry.currentSlideIndex
             /\ historyIndex' = target
             /\ selectedObjectId' = NoId
             /\ editingTextId' = NoId
             /\ resetTimers' = resetTimers + 1
             /\ crashed' = FALSE
             /\ UNCHANGED << nextSlideId, nextId, activeTool, currentColor, maskColor, textColor,
                             gestureVars, focus, isProcessing, isScanning >>
             /\ SyncTempFontSize(tempFontSize)

Idle == UNCHANGED << docVars, histVars, toolVars, gestureVars, inputVars, asyncVars, crashed >>

\* undo() with the guard raised before its test instead of after it.
undoGuarding ==
    /\ Event("undo")
    /\ focus = "none"
    /\ editingTextId = NoId \/ historyIndex > 0
    /\ IF historyIndex > 0 THEN Restore(historyIndex - 1)
       ELSE /\ isInternalStateUpdate' = TRUE
            /\ UNCHANGED << docVars, history, historyIndex, resetTimers, toolVars, gestureVars,
                            inputVars, asyncVars, crashed >>
    /\ Observe

\* undo() (lines 97-111), reached by Ctrl+Z or by the toolbar button, which is
\* disabled while historyIndex <= 0 (line 1035).
undo ==
    /\ Event("undo")
    /\ focus = "none"
    /\ editingTextId = NoId \/ historyIndex > 0
    /\ IF historyIndex > 0 THEN Restore(historyIndex - 1) ELSE Idle
    /\ Observe

\* redo() (lines 113-127), reached by Ctrl+Y or by the toolbar button, which is
\* disabled while historyIndex >= history.length - 1 (line 1043).
redo ==
    /\ Event("redo")
    /\ focus = "none"
    /\ editingTextId = NoId \/ historyIndex < Len(history) - 1
    /\ IF historyIndex < Len(history) - 1 THEN Restore(historyIndex + 1) ELSE Idle
    /\ Observe

\* setTimeout(() => { isInternalStateUpdate.current = false; }, 0)
resetInternalStateUpdate ==
    /\ Event("resetInternalStateUpdate")
    /\ resetTimers > 0
    /\ resetTimers' = resetTimers - 1
    /\ isInternalStateUpdate' = FALSE
    /\ UNCHANGED << docVars, history, historyIndex, toolVars, gestureVars, inputVars,
                    asyncVars, crashed >>
    /\ Observe

\* ------------------------------------------------- focus and mounting
\* The font size controls are rendered while a text object is selected (line 1243).
FontInputMounted == HasSelectedObject /\ selectedObject.type = "text"

\* The textarea is rendered inside the canvas wrapper while editingObject
\* exists (lines 1356, 1383).
TextareaMounted == ~isProcessing /\ Len(slides) > 0 /\ HasEditingObject

\* document.activeElement after the render that follows a handler: the
\* textarea takes the focus when it mounts (autoFocus, line 1385); an input
\* that is unmounted loses it.
SyncFocus(handlerFocus) ==
    focus' =
        IF TextareaMounted' /\ ~TextareaMounted THEN "textarea"
        ELSE IF handlerFocus = "font" /\ ~FontInputMounted' THEN "none"
        ELSE IF handlerFocus = "textarea" /\ ~TextareaMounted' THEN "none"
        ELSE handlerFocus

\* ------------------------------------------- in-place object mutation
ReplaceAt(objs, k, obj) == [i \in 1..Len(objs) |-> IF i = k THEN obj ELSE objs[i]]

\* { ...obj, ...updates }
Assign(obj, updates) ==
    [f \in DOMAIN obj |-> IF f \in DOMAIN updates THEN updates[f] ELSE obj[f]]

\* updateSelectedObject(updates) (lines 916-924)
UpdateSelectedObject(updates) ==
    IF selectedObjectId = NoId \/ ~HasCurrentSlide \/ ~HasSelectedObject
    THEN heap
    ELSE LET k == FindIndex([i \in 1..Len(currentObjects) |-> currentObjects[i].id = selectedObjectId])
         IN  [heap EXCEPT ![currentSlideRef].objects = ReplaceAt(@, k, Assign(@[k], updates))]

SetColor(c) == UpdateSelectedObject([color |-> c])
SetFontSize(n) == UpdateSelectedObject([fontSize |-> n])
SetContent(v) == UpdateSelectedObject([content |-> v])

\* A handler that changed objects in place and possibly asked for a snapshot:
\* hs is the history state it leaves behind.
Mutate(h, hs) ==
    /\ heap' = h
    /\ history' = hs.history
    /\ historyIndex' = hs.historyIndex
    /\ UNCHANGED << slides, ocrs, uploads, nextSlideId, isInternalStateUpdate, resetTimers,
                    isProcessing, isScanning, crashed >>

\* ------------------------------------------------------- tool selection
\* setActiveTool from a toolbar button (lines 1186-1228), where mask and text
\* also load their remembered colour, or from a single-letter shortcut
\* (lines 967-978).
setActiveTool(t, byButton) ==
    /\ Event("setActiveTool")
    /\ focus = "none"
    /\ ~byButton => editingTextId = NoId
    /\ activeTool' = t
    /\ currentColor' = IF byButton /\ t = "mask" THEN maskColor
                       ELSE IF byButton /\ t = "text" THEN textColor
                       ELSE currentColor
    /\ UNCHANGED << docVars, histVars, selectedObjectId, editingTextId, maskColor, textColor,
                    gestureVars, inputVars, asyncVars, crashed >>
    /\ Observe

\* Space held / released (lines 988-999).
keySpace(down) ==
    /\ Event("keySpace")
    /\ down => ~KeyboardBlocked /\ ~isPanningMode
    /\ ~down => isPanningMode
    /\ isPanningMode' = down
    /\ UNCHANGED << docVars, histVars, toolVars, activeHandle, isDrawing, isDragging, isPanning,
                    startPos, dragOffset, currentObjectRef, inputVars, asyncVars, crashed >>
    /\ Observe

\* Slide thumbnail onClick (lines 1158-1162).
clickSlide(index) ==
    /\ Event("clickSlide")
    /\ focus = "none"
    /\ index \in 0..(Len(slides) - 1)
    /\ currentSlideIndex' = index
    /\ selectedObjectId' = NoId
    /\ editingTextId' = NoId
    /\ UNCHANGED << heap, slides, nextSlideId, nextId, histVars, activeTool, currentColor,
                    maskColor, textColor, gestureVars, asyncVars, crashed >>
    /\ SyncTempFontSize(tempFontSize)
    /\ SyncFocus(focus)
    /\ Observe

\* --------------------------------------------------- delete, reorder
\* deleteSelected (lines 939-947), from Delete/Backspace (line 960) or the
\* toolbar button (line 1062, rendered while selectedObjectId is set).
deleteSelected ==
    /\ Event("deleteSelected")
    /\ focus = "none"
    /\ selectedObjectId # NoId
    /\ IF ~HasCurrentSlide THEN Idle
       ELSE LET h == [heap EXCEPT ![currentSlideRef].objects =
                         SelectSeq(@, LAMBDA o : o.id # selectedObjectId)]
            IN  /\ Mutate(h, Snapshot(h))
                /\ selectedObjectId' = NoId
                /\ editingTextId' = NoId
                /\ UNCHANGED << currentSlideIndex, nextId, activeTool, currentColor, maskColor,
                                textColor, gestureVars >>
                /\ SyncTempFontSize(tempFontSize)
                /\ SyncFocus(focus)
    /\ Observe

\* A bringToFront that puts the object first in the sequence.
bringToBack ==
    /\ Event("bringToFront")
    /\ focus = "none"
    /\ selectedObjectId # NoId
    /\ IF ~HasCurrentSlide \/ ~HasSelectedObject THEN Idle
       ELSE LET index == FindIndex([i \in 1..Len(currentObjects) |-> currentObjects[i].id = selectedObjectId])
                h == [heap EXCEPT ![currentSlideRef].objects = << @[index] >> \o RemoveAt(@, index)]
            IN  /\ Mutate(h, Snapshot(h))
                /\ UNCHANGED << currentSlideIndex, nextId, toolVars, gestureVars, inputVars >>
    /\ Observe

\* bringToFront (lines 926-937), toolbar button (line 1054).
bringToFront ==
    /\ Event("bringToFront")
    /\ focus = "none"
    /\ selectedObjectId # NoId
    /\ IF ~HasCurrentSlide \/ ~HasSelectedObject THEN Idle
       ELSE LET index == FindIndex([i \in 1..Len(currentObjects) |-> currentObjects[i].id = selectedObjectId])
                h == [heap EXCEPT ![currentSlideRef].objects = Append(RemoveAt(@, index), @[index])]
            IN  /\ Mutate(h, Snapshot(h))
                /\ UNCHANGED << currentSlideIndex, nextId, toolVars, gestureVars, inputVars >>
    /\ Observe

\* ------------------------------------------------- font size controls
\* parseInt(tempFontSize) || selectedObject.fontSize || 100
CurrentFontSize ==
    IF tempFontSize # 0 THEN tempFontSize
    ELSE IF selectedObject.fontSize # NoFontSize THEN selectedObject.fontSize
    ELSE DefaultFontSize

\* The + and - buttons (lines 1246-1252, 1298-1304); delta is +1 or -1.
clickFontSize(delta) ==
    /\ Event("clickFontSize")
    /\ focus = "none"
    /\ FontInputMounted
    /\ LET nextSize == IF delta > 0 THEN CurrentFontSize + 1 ELSE Max(1, CurrentFontSize - 1)
           h == SetFontSize(nextSize)
       IN  /\ Mutate(h, Snapshot(h))
           /\ UNCHANGED << currentSlideIndex, nextId, toolVars, gestureVars >>
           /\ SyncTempFontSize(nextSize)
           /\ SyncFocus(focus)
    /\ Observe

\* onFocus of the font size input (lines 1263-1267).
focusFontSize ==
    /\ Event("focusFontSize")
    /\ focus = "none"
    /\ FontInputMounted
    /\ tempFontSize' = IF selectedObject.fontSize # NoFontSize THEN selectedObject.fontSize ELSE tempFontSize
    /\ focus' = "font"
    /\ UNCHANGED << docVars, histVars, toolVars, gestureVars, asyncVars, crashed >>
    /\ Observe

\* onChange of the font size input (lines 1268-1277); val = 0 is a string
\* that parseInt does not turn into a positive number.
changeFontSize(val) ==
    /\ Event("changeFontSize")
    /\ focus = "font"
    /\ FontInputMounted
    /\ Mutate(IF val > 0 THEN SetFontSize(val) ELSE heap, HistNow)
    /\ UNCHANGED << currentSlideIndex, nextId, toolVars, gestureVars >>
    /\ SyncTempFontSize(val)
    /\ SyncFocus(focus)
    /\ Observe

\* onBlur of the font size input (lines 1278-1286).
blurFontSize ==
    /\ Event("blurFontSize")
    /\ focus = "font"
    /\ FontInputMounted
    /\ LET fallback == IF selectedObject.fontSize # NoFontSize THEN selectedObject.fontSize ELSE DefaultFontSize
           h == IF tempFontSize <= 0 THEN SetFontSize(fallback) ELSE heap
       IN  /\ Mutate(h, Snapshot(h))
           /\ UNCHANGED << currentSlideIndex, nextId, toolVars, gestureVars >>
           /\ SyncTempFontSize(IF tempFontSize <= 0 THEN fallback ELSE tempFontSize)
           /\ SyncFocus("none")
    /\ Observe

\* onWheel of the font size input (lines 1287-1293); the wheel needs no focus.
wheelFontSize(delta) ==
    /\ Event("wheelFontSize")
    /\ FontInputMounted
    /\ LET nextSize == Max(1, CurrentFontSize + delta)
       IN  /\ Mutate(SetFontSize(nextSize), HistNow)
           /\ UNCHANGED << currentSlideIndex, nextId, toolVars, gestureVars >>
           /\ SyncTempFontSize(nextSize)
           /\ SyncFocus(focus)
    /\ Observe

\* ------------------------------------------------------- colour input
\* onChange of the colour input (lines 1317-1331).
changeColor(color) ==
    /\ Event("changeColor")
    /\ focus \in { "none", "color" }
    /\ selectedObjectId # NoId => HasCurrentSlide
    /\ currentColor' = color
    /\ maskColor' = IF activeTool = "mask" \/ (HasSelectedObject /\ selectedObject.type = "mask")
                    THEN color ELSE maskColor
    /\ textColor' = IF activeTool = "text" \/ (HasSelectedObject /\ selectedObject.type # "mask")
                    THEN color ELSE textColor
    /\ Mutate(SetColor(color), HistNow)
    /\ UNCHANGED << currentSlideIndex, nextId, activeTool, selectedObjectId, editingTextId,
                    gestureVars, tempFontSize >>
    /\ SyncFocus("color")
    /\ Observe

\* onBlur of the colour input (lines 1332-1334).
blurColor ==
    /\ Event("blurColor")
    /\ focus = "color"
    /\ Mutate(heap, IF selectedObjectId # NoId THEN Snapshot(heap) ELSE HistNow)
    /\ UNCHANGED << currentSlideIndex, nextId, toolVars, gestureVars, tempFontSize >>
    /\ SyncFocus("none")
    /\ Observe

\* ------------------------------------------------- in-place text edit
\* onChange of the textarea (line 1399).
changeText(value) ==
    /\ Event("changeText")
    /\ focus = "textarea"
    /\ TextareaMounted
    /\ Mutate(SetContent(value), HistNow)
    /\ UNCHANGED << currentSlideIndex, nextId, toolVars, gestureVars, inputVars >>
    /\ Observe

\* onBlur of the textarea (lines 1412-1418), and Ctrl+Enter (lines 1419-1424).
EndTextEdit ==
    /\ Mutate(heap, Snapshot(heap))
    /\ editingTextId' = NoId
    /\ UNCHANGED << currentSlideIndex, nextId, activeTool, selectedObjectId, currentColor,
                    maskColor, textColor, gestureVars, tempFontSize >>

blurText ==
    /\ Event("blurText")
    /\ focus = "textarea"
    /\ TextareaMounted
    /\ IF activeHandle = NoHandle
       THEN EndTextEdit /\ SyncFocus("none")
       ELSE /\ focus' = "none"
            /\ UNCHANGED << docVars, histVars, toolVars, gestureVars, tempFontSize, asyncVars, crashed >>
    /\ Observe

commitText ==
    /\ Event("commitText")
    /\ focus = "textarea"
    /\ TextareaMounted
    /\ EndTextEdit
    /\ SyncFocus(focus)
    /\ Observe

\* ------------------------------------------------------- pointer down
\* A pan press that also drops the selection.
BeginPanDeselecting ==
    /\ isPanning' = TRUE
    /\ selectedObjectId' = NoId
    /\ UNCHANGED << docVars, histVars, activeTool, editingTextId, currentColor, maskColor,
                    textColor, activeHandle, isDrawing, isDragging, isPanningMode, startPos,
                    dragOffset, currentObjectRef, inputVars, asyncVars, crashed >>

\* The pan branch of handleMouseDown (lines 543-547).
BeginPan ==
    /\ isPanning' = TRUE
    /\ UNCHANGED << docVars, histVars, toolVars, activeHandle, isDrawing, isDragging,
                    isPanningMode, startPos, dragOffset, currentObjectRef, inputVars,
                    asyncVars, crashed >>

\* The eyedropper branch (lines 551-573); hex is the pixel read from the canvas.
PickColor(hex) ==
    /\ currentColor' = hex
    /\ maskColor' = hex
    /\ textColor' = IF selectedObjectId # NoId /\ HasSelectedObject /\ selectedObject.type = "text"
                    THEN hex ELSE textColor
    /\ activeTool' = "select"
    /\ Mutate(IF selectedObjectId # NoId THEN SetColor(hex) ELSE heap, HistNow)
    /\ UNCHANGED << currentSlideIndex, nextId, selectedObjectId, editingTextId, gestureVars,
                    inputVars >>

\* A clone that kept the identity of its original.
CloneSameId(obj) == obj

\* A clone placed at the origin of the slide.
CloneAtOrigin(obj) == [obj EXCEPT !.id = nextId, !.x = 0, !.y = 0]

\* { ...obj, id: crypto.randomUUID() }                      (lines 606-609)
Clone(obj) == [obj EXCEPT !.id = nextId]

\* The select branch (lines 575-631).
SelectAt(pos, ctrlKey) ==
    LET handleHit == IF selectedObjectId # NoId /\ HasSelectedObject
                     THEN HitHandle(selectedObject, pos, HandleHitSize) ELSE NoHandle
        realIndex == FindLastIndex([i \in 1..Len(currentObjects) |-> Contains(currentObjects[i], pos)])
    IN  IF handleHit # NoHandle
        THEN /\ activeHandle' = handleHit
             /\ UNCHANGED << docVars, histVars, toolVars, isDrawing, isDragging, isPanning,
                             isPanningMode, startPos, dragOffset, currentObjectRef, inputVars,
                             asyncVars, crashed >>
        ELSE IF realIndex # 0
        THEN LET hitObj == currentObjects[realIndex]
                 obj == IF ctrlKey THEN Clone(hitObj) ELSE hitObj
                 objects == IF ctrlKey THEN Append(currentObjects, obj)
                            ELSE Append(RemoveAt(currentObjects, realIndex), obj)
             IN  /\ Mutate([heap EXCEPT ![currentSlideRef].objects = objects], HistNow)
                 /\ nextId' = IF ctrlKey THEN nextId + 1 ELSE nextId
                 /\ selectedObjectId' = obj.id
                 /\ currentColor' = obj.color
                 /\ isDragging' = TRUE
                 /\ dragOffset' = << pos[1] - obj.x, pos[2] - obj.y >>
                 /\ UNCHANGED << currentSlideIndex, activeTool, editingTextId, maskColor, textColor,
                                 activeHandle, isDrawing, isPanning, isPanningMode, startPos,
                                 currentObjectRef >>
                 /\ SyncTempFontSize(tempFontSize)
                 /\ SyncFocus(focus)
        ELSE /\ selectedObjectId' = NoId
             /\ UNCHANGED << docVars, histVars, activeTool, editingTextId, currentColor, maskColor,
                             textColor, gestureVars, asyncVars, crashed >>
             /\ SyncTempFontSize(tempFontSize)
             /\ SyncFocus(focus)

\* The mask and scan branches (lines 632-643, 665-677): a zero-size draft.
BeginDraft(pos, draft) ==
    /\ isDrawing' = TRUE
    /\ startPos' = pos
    /\ currentObjectRef' = draft
    /\ UNCHANGED << heap, slides, currentSlideIndex, nextSlideId, histVars, toolVars,
                    activeHandle, isDragging, isPanning, isPanningMode, dragOffset, inputVars,
                    asyncVars, crashed >>

ScanRoi(pos) ==
    [id |-> ScanRoiId, type |-> "text", x |-> pos[1], y |-> pos[2], width |-> 0, height |-> 0,
     content |-> "", color |-> "#FFFFFF", fontSize |-> NoFontSize]

\* A text tool that rubber-bands a frame, as the scan tool does.
DraftText(pos) == BeginDraft(pos, ScanRoi(pos)) /\ nextId' = nextId

\* The text branch (lines 644-664).
PlaceText(pos) ==
    LET newObj == TextObject(nextId, pos[1], pos[2], DefaultTextWidth, DefaultTextHeight, "",
                             IF currentColor = "#FFFFFF" THEN "#000000" ELSE currentColor,
                             DefaultFontSize)
        h == [heap EXCEPT ![currentSlideRef].objects = Append(@, newObj)]
    IN  /\ Mutate(h, Snapshot(h))
        /\ nextId' = nextId + 1
        /\ selectedObjectId' = newObj.id
        /\ editingTextId' = newObj.id
        /\ currentColor' = newObj.color
        /\ activeTool' = "select"
        /\ UNCHANGED << currentSlideIndex, maskColor, textColor, gestureVars >>
        /\ SyncTempFontSize(tempFontSize)
        /\ SyncFocus(focus)

\* handleMouseDown (lines 540-679); button 1 is the middle button.
HandleMouseDown(pos, ctrlKey, button) ==
    IF ~HasCurrentSlide THEN Idle
    ELSE IF isPanningMode \/ activeTool = "pan" \/ button = 1 THEN BeginPan
    ELSE IF activeTool = "eyedropper" THEN \E hex \in PixelColors : PickColor(hex)
    ELSE IF activeTool = "select" THEN SelectAt(pos, ctrlKey)
    ELSE IF activeTool = "mask"
    THEN BeginDraft(pos, MaskObject(nextId, pos[1], pos[2], 0, 0, currentColor)) /\ nextId' = nextId + 1
    ELSE IF activeTool = "text" THEN PlaceText(pos)
    ELSE BeginDraft(pos, ScanRoi(pos)) /\ nextId' = nextId

\* onMouseDown of the textarea (lines 1400-1411): only a press within reach
\* of a handle of the edited object is passed on to handleMouseDown.
NearAnyHandle(obj, pos) ==
    \E k \in 1..Len(Handles) : NearHandle(getHandles2(obj)[Handles[k]], pos, TextareaHandleReach)

\* A press of a mouse button over the canvas; while the textarea is shown it
\* covers the rectangle of the edited object.
mouseDown(pos, ctrlKey, button) ==
    /\ Event("mouseDown")
    /\ CanvasMounted
    /\ focus \in { "none", "textarea" }
    /\ IF TextareaMounted /\ Contains(editingObject, pos)
       THEN IF NearAnyHandle(editingObject, pos)
            THEN HandleMouseDown(pos, ctrlKey, button)
            ELSE /\ focus' = "textarea"
                 /\ UNCHANGED << docVars, histVars, toolVars, gestureVars, tempFontSize, asyncVars, crashed >>
       ELSE HandleMouseDown(pos, ctrlKey, button)
    /\ Observe

\* ------------------------------------------------------- pointer move
\* The resize branch (lines 694-718).
Includes(handle, letter) ==
    CASE letter = "e" -> handle \in { "ne", "e", "se" }
      [] letter = "s" -> handle \in { "se", "s", "sw" }
      [] letter = "w" -> handle \in { "nw", "sw", "w" }
      [] letter = "n" -> handle \in { "nw", "n", "ne" }

\* A resize whose w and n branches follow the pointer without the floor.
ResizedUnclamped(obj, handle, pos) ==
    LET o1 == IF Includes(handle, "e") THEN [obj EXCEPT !.width = Max(MinResizeSize, pos[1] - obj.x)] ELSE obj
        o2 == IF Includes(handle, "s") THEN [o1 EXCEPT !.height = Max(MinResizeSize, pos[2] - o1.y)] ELSE o1
        o3 == IF Includes(handle, "w") THEN [o2 EXCEPT !.width = obj.x + obj.width - pos[1], !.x = pos[1]] ELSE o2
    IN  IF Includes(handle, "n") THEN [o3 EXCEPT !.height = obj.y + obj.height - pos[2], !.y = pos[2]] ELSE o3

Resized(obj, handle, pos) ==
    LET oldX == obj.x
        oldY == obj.y
        oldW == obj.width
        oldH == obj.height
        newX == Min(pos[1], oldX + oldW - MinResizeSize)
        newY == Min(pos[2], oldY + oldH - MinResizeSize)
        o1 == IF Includes(handle, "e") THEN [obj EXCEPT !.width = Max(MinResizeSize, pos[1] - obj.x)] ELSE obj
        o2 == IF Includes(handle, "s") THEN [o1 EXCEPT !.height = Max(MinResizeSize, pos[2] - o1.y)] ELSE o1
        o3 == IF Includes(handle, "w") THEN [o2 EXCEPT !.width = oldX + oldW - newX, !.x = newX] ELSE o2
    IN  IF Includes(handle, "n") THEN [o3 EXCEPT !.height = oldY + oldH - newY, !.y = newY] ELSE o3

\* The drag branch (lines 745-754).
Dragged(obj, pos) == [obj EXCEPT !.x = pos[1] - dragOffset[1], !.y = pos[2] - dragOffset[2]]

\* The draft branch (lines 756-765).
Redrawn(draft, pos) ==
    [draft EXCEPT !.x = Min(pos[1], startPos[1]), !.y = Min(pos[2], startPos[2]),
                  !.width = Abs(pos[1] - startPos[1]), !.height = Abs(pos[2] - startPos[2])]

\* handleMouseMove (lines 681-766).
mouseMove(pos) ==
    /\ Event("mouseMove")
    /\ CanvasMounted
    /\ HasCurrentSlide
    \* outside a transaction a move only restyles the cursor (lines 720-743)
    /\ isPanning \/ activeHandle # NoHandle \/ isDragging \/ isDrawing
    /\ IF isPanning THEN Idle
       ELSE IF activeHandle # NoHandle /\ selectedObjectId # NoId
       THEN /\ Mutate(UpdateSelectedObject(Resized(selectedObject, activeHandle, pos)), HistNow)
            /\ UNCHANGED << currentSlideIndex, nextId, toolVars, gestureVars, focus >>
            /\ SyncTempFontSize(tempFontSize)
       ELSE IF isDragging /\ selectedObjectId # NoId
       THEN /\ Mutate(UpdateSelectedObject(Dragged(selectedObject, pos)), HistNow)
            /\ UNCHANGED << currentSlideIndex, nextId, toolVars, gestureVars, focus >>
            /\ SyncTempFontSize(tempFontSize)
       ELSE IF isDrawing /\ currentObjectRef # NoDraft
       THEN /\ currentObjectRef' = Redrawn(currentObjectRef, pos)
            /\ UNCHANGED << docVars, histVars, toolVars, activeHandle, isDrawing, isDragging,
                            isPanning, isPanningMode, startPos, dragOffset, inputVars, asyncVars,
                            crashed >>
       ELSE Idle
    /\ Observe

\* --------------------------------------------------------- pointer up
\* The synchronous part of performOCR (lines 813-823): the closure of the
\* render that handled the pointer-up stays pending until the worker answers.
OcrClosure(roi) ==
    [slides |-> slides, currentSlideIndex |-> currentSlideIndex, historyIndex |-> historyIndex,
     roi |-> roi]

OcrRejected(roi) == ~HasCurrentSlide \/ roi.width < MinOcrSize \/ roi.height < MinOcrSize

\* A draft is committed only when both sides exceed the threshold.
CommitsDraftEitherSide(draft) == draft.width > MinDrawSize \/ draft.height > MinDrawSize

\* currentObjectRef.current.width > 5 && currentObjectRef.current.height > 5  (line 884)
CommitsDraft(draft) == draft.width > MinDrawSize /\ draft.height > MinDrawSize

\* handleMouseUp (lines 875-900), also the canvas's onMouseLeave (line 1372).
mouseUp ==
    /\ Event("mouseUp")
    /\ CanvasMounted
    \* with no transaction open the handler only rewrites flags that are clear
    /\ isPanning \/ activeHandle # NoHandle \/ isDragging \/ isDrawing
    /\ IF isPanning
       THEN /\ isPanning' = FALSE
            /\ UNCHANGED << docVars, histVars, toolVars, activeHandle, isDrawing, isDragging,
                            isPanningMode, startPos, dragOffset, currentObjectRef, inputVars,
                            asyncVars, crashed >>
       ELSE LET drawn == isDrawing /\ currentObjectRef # NoDraft
                scan == drawn /\ activeTool = "scan"
                commit == drawn /\ activeTool # "scan" /\ CommitsDraft(currentObjectRef)
                h == IF commit THEN [heap EXCEPT ![currentSlideRef].objects = Append(@, currentObjectRef)]
                     ELSE heap
                hs1 == IF commit THEN Snapshot(h) ELSE HistNow
                hs2 == IF isDragging \/ activeHandle # NoHandle
                       THEN SaveToHistory(hs1, isInternalStateUpdate, historyIndex, h, slides, currentSlideIndex)
                       ELSE hs1
                startOcr == scan /\ ~OcrRejected(currentObjectRef)
            IN  /\ heap' = h
                /\ history' = hs2.history
                /\ historyIndex' = hs2.historyIndex
                /\ ocrs' = IF startOcr THEN Append(ocrs, OcrClosure(currentObjectRef)) ELSE ocrs
                /\ isScanning' = IF startOcr THEN TRUE ELSE isScanning
                /\ selectedObjectId' = IF commit THEN currentObjectRef.id ELSE selectedObjectId
                /\ activeTool' = IF commit THEN "select" ELSE activeTool
                /\ isDrawing' = FALSE
                /\ isDragging' = FALSE
                /\ currentObjectRef' = NoDraft
                /\ activeHandle' = NoHandle
                /\ UNCHANGED << slides, currentSlideIndex, nextSlideId, nextId, isInternalStateUpdate,
                                resetTimers, editingTextId, currentColor, maskColor, textColor,
                                isPanning, isPanningMode, startPos, dragOffset, isProcessing, uploads,
                                crashed >>
                /\ SyncTempFontSize(tempFontSize)
                /\ SyncFocus(focus)
    /\ Observe

\* handleDoubleClick (lines 902-914).
doubleClick(pos) ==
    /\ Event("doubleClick")
    /\ CanvasMounted
    /\ focus \in { "none", "textarea" }
    /\ ~(TextareaMounted /\ Contains(editingObject, pos))
    /\ activeTool = "select" /\ HasCurrentSlide
    /\ LET k == FindLastIndex([i \in 1..Len(currentObjects) |-> currentObjects[i].type = "text" /\ Contains(currentObjects[i], pos)])
       IN  /\ k # 0
           /\ editingTextId' = currentObjects[k].id
           /\ selectedObjectId' = currentObjects[k].id
           /\ UNCHANGED << docVars, histVars, activeTool, currentColor, maskColor, textColor,
                           gestureVars, asyncVars, crashed >>
           /\ SyncTempFontSize(tempFontSize)
           /\ SyncFocus(focus)
    /\ Observe

\* ------------------------------------------------------------ ingestion
\* The closure handleFileUpload runs in (useCallback deps, line 253).
UploadClosure ==
    [slides |-> slides, currentSlideIndex |-> currentSlideIndex, historyIndex |-> historyIndex]

\* handleFileUpload up to its first await (lines 129-138); the file input and
\* the drop zone are always there.
uploadStart ==
    /\ Event("uploadStart")
    /\ focus = "none"
    /\ isProcessing' = TRUE
    /\ uploads' = Append(uploads, UploadClosure)
    /\ UNCHANGED << docVars, histVars, toolVars, gestureVars, tempFontSize, isScanning, ocrs,
                    crashed >>
    /\ SyncFocus(focus)
    /\ Observe

\* A failed ingestion that still moved the cursor.
UploadFailedAdvancing(k) ==
    /\ Commit(heap, slides, history, ocrs, RemoveAt(uploads, k))
    /\ historyIndex' = IndexPush(historyIndex)
    /\ UNCHANGED << currentSlideIndex, nextSlideId, canvasSize >>

\* catch (lines 242-245), or a file that is neither a PDF nor an image
\* (line 219 finds loadedSlides empty): the k-th pending call ends and
\* nothing is committed.
UploadFailed(k) ==
    /\ Commit(heap, slides, history, ocrs, RemoveAt(uploads, k))
    /\ UNCHANGED << historyIndex, currentSlideIndex, nextSlideId, canvasSize >>

\* The rest of handleFileUpload (lines 134-250) for the k-th pending call,
\* any of the pending calls: n slides of the given raster size were loaded
\* (none when the file is neither a PDF nor an image) and then either the file
\* ended or a page, or the image, failed to decode (catch, lines 242-245).
\* The ids of slides that are dropped are never seen again.
uploadDone(n, size, failed) ==
    /\ Delivered("uploadDone")
    /\ UNCHANGED exportVars
    /\ \E k \in 1..Len(uploads) :
       LET c == uploads[k]
           h == heap \o [j \in 1..n |-> Slide(nextSlideId + j - 1, << >>)]
           loadedSlides == [j \in 1..n |-> Len(heap) + j]
           newState == NewState(h, c.slides \o loadedSlides,
                                IF Len(c.slides) = 0 THEN 0 ELSE c.currentSlideIndex)
       IN  IF n > 0 /\ ~failed
           THEN /\ Commit(h, slides \o loadedSlides,
                          HistoryPush(history, c.historyIndex, newState), ocrs,
                          RemoveAt(uploads, k))
                /\ historyIndex' = IndexPush(historyIndex)
                /\ currentSlideIndex' = IF Len(c.slides) = 0 THEN 0 ELSE currentSlideIndex
                /\ nextSlideId' = nextSlideId + n
                /\ canvasSize' = canvasSize \o [j \in 1..n |-> size]
           ELSE UploadFailed(k)
    /\ isProcessing' = FALSE
    /\ UNCHANGED << nextId, isInternalStateUpdate, resetTimers, toolVars, gestureVars, isScanning,
                    crashed >>
    /\ SyncTempFontSize(tempFontSize)
    /\ SyncFocus(focus)
    /\ Observe

\* ------------------------------------------------------------------ OCR
\* Math.max(12, Math.round(avgLineHeight * 1.2))             (line 848)
CalibratedSize(avgLineHeight) == Max(12, (12 * avgLineHeight + 5) \div 10)

DefaultLineHeight == 60

\* A failed scan that still left the scan tool.
OcrFailedToSelect(k) ==
    /\ Commit(heap, slides, history, RemoveAt(ocrs, k), uploads)
    /\ activeTool' = "select"
    /\ UNCHANGED << historyIndex, nextId, selectedObjectId >>

\* catch (lines 867-869), or a result without text (line 830): the k-th
\* pending call ends and nothing is committed.
OcrFailed(k) ==
    /\ Commit(heap, slides, history, RemoveAt(ocrs, k), uploads)
    /\ UNCHANGED << historyIndex, nextId, selectedObjectId, activeTool >>

\* The continuation of performOCR after the worker answered (lines 828-872),
\* for any of the pending calls.
ocrDone(outcome) ==
    /\ Event("ocrDone")
    /\ \E k \in 1..Len(ocrs) :
       LET c == ocrs[k]
           roi == c.roi
       IN  IF outcome = "text"
           THEN \E text \in OcrTexts, detectedColor \in DetectedColors :
                LET newObj == TextObject(nextId, roi.x, roi.y, roi.width, roi.height, text,
                                         detectedColor, CalibratedSize(DefaultLineHeight))
                    target == c.slides[c.currentSlideIndex + 1]
                    h == [heap EXCEPT ![target].objects = Append(@, newObj)]
                    hs == SaveToHistory(HistNow, isInternalStateUpdate, c.historyIndex, h,
                                        c.slides, c.currentSlideIndex)
                IN  /\ Commit(h, c.slides, hs.history, RemoveAt(ocrs, k), uploads)
                    /\ historyIndex' = hs.historyIndex
                    /\ nextId' = nextId + 1
                    /\ selectedObjectId' = newObj.id
                    /\ activeTool' = "select"
           ELSE OcrFailed(k)
    /\ isScanning' = FALSE
    /\ UNCHANGED << currentSlideIndex, nextSlideId, isInternalStateUpdate, resetTimers,
                    editingTextId, currentColor, maskColor, textColor, gestureVars, isProcessing,
                    crashed >>
    /\ SyncTempFontSize(tempFontSize)
    /\ SyncFocus(focus)
    /\ Observe

\* ------------------------------------------------------ detectTextColor
\* A region is width x height pixels in row order, each << r, g, b >>; the
\* byte index (y * width + x) * 4 of the source is the pixel y * width + x.
PixelAt(img, x, y) == img.data[y * img.width + x + 1]

\* A key of one pixel value for each value.
BucketExact(c) == c

\* Math.floor(c / 16)                                         (line 777)
Bucket(c) == c \div 16

\* `${Math.floor(r / 16)},${Math.floor(g / 16)},${Math.floor(b / 16)}`
ColorKey(px) == << Bucket(px[1]), Bucket(px[2]), Bucket(px[3]) >>

\* The keys found along the four edges (lines 773-785).
BackgroundColors(img) ==
    { ColorKey(PixelAt(img, x, y)) : x \in 0..(img.width - 1), y \in { 0, img.height - 1 } }
    \cup { ColorKey(PixelAt(img, x, y)) : x \in { 0, img.width - 1 }, y \in 0..(img.height - 1) }

\* c.toString(16).padStart(2, '0').toUpperCase()             (line 808)
HexDigits == << "0", "1", "2", "3", "4", "5", "6", "7", "8", "9", "A", "B", "C", "D", "E", "F" >>
ToHex(c) == << HexDigits[(c \div 16) + 1], HexDigits[(c % 16) + 1] >>
HexColor(px) == << "#" >> \o ToHex(px[1]) \o ToHex(px[2]) \o ToHex(px[3])

\* The histogram loop (lines 791-802) from pixel p on; every fourth pixel is
\* sampled (i += 16).  best is << maxCount, dominantColor >>.
RECURSIVE Histogram(_, _, _, _, _)
Histogram(img, background, p, colorCounts, best) ==
    IF p >= Len(img.data) THEN best
    ELSE LET px == img.data[p + 1]
             key == ColorKey(px)
             count == colorCounts[key] + 1
         IN  IF key \in background
             THEN Histogram(img, background, p + 4, colorCounts, best)
             ELSE Histogram(img, background, p + 4, [colorCounts EXCEPT ![key] = count],
                            IF count > best[1] THEN << count, px >> ELSE best)

\* detectTextColor (lines 768-811)
detectTextColor(img) ==
    LET keys == { ColorKey(img.data[i]) : i \in 1..Len(img.data) }
        best == Histogram(img, BackgroundColors(img), 0, [k \in keys |-> 0], << 0, << 0, 0, 0 >> >>)
    IN  IF best[1] = 0 THEN HexColor(<< 0, 0, 0 >>) ELSE HexColor(best[2])

\* detectTextColor is called on the cropped region.
detect ==
    /\ Stepped("detectTextColor")
    /\ detected' = detectTextColor(region)
    /\ UNCHANGED << docVars, histVars, toolVars, gestureVars, inputVars, asyncVars, canvasSize,
                    exportVars, region, recognized, cleanedText, zoom, crashed, obs >>

\* --------------------------------------------------- text normalisation
\* Characters are code points.  [\u3040-\u309F\u30A0-\u30FF\u4E00-\u9FFF],
\* [a-zA-Z0-9] and \s of the regular expressions of lines 832-834.
InClass(c, class) ==
    CASE class = "script" -> c \in 12352..12447 \/ c \in 12448..12543 \/ c \in 19968..40959
      [] class = "alnum" -> c \in 97..122 \/ c \in 65..90 \/ c \in 48..57
      [] class = "space" -> c \in 9..13 \/ c \in { 32, 160, 5760, 8232, 8233, 8239, 8287, 12288, 65279 }
                            \/ c \in 8192..8202

\* String.prototype.trim
RECURSIVE TrimStart(_)
TrimStart(s) == IF s # << >> /\ InClass(Head(s), "space") THEN TrimStart(Tail(s)) ELSE s

RECURSIVE TrimEnd(_)
TrimEnd(s) ==
    IF s # << >> /\ InClass(s[Len(s)], "space") THEN TrimEnd(SubSeq(s, 1, Len(s) - 1)) ELSE s

Trim(s) == TrimEnd(TrimStart(s))

\* The length of the run of white space that follows position i.
RECURSIVE SpaceRun(_, _)
SpaceRun(s, i) == IF i < Len(s) /\ InClass(s[i + 1], "space") THEN 1 + SpaceRun(s, i + 1) ELSE 0

\* s[i] is of class left, white space follows, and then a character of class right.
GapAt(s, i, left, right) ==
    /\ InClass(s[i], left)
    /\ SpaceRun(s, i) > 0
    /\ i + SpaceRun(s, i) < Len(s)
    /\ InClass(s[i + SpaceRun(s, i) + 1], right)

\* .replace(/([left])\s+(?=[right])/g, '$1') from position i on
RECURSIVE ReplaceGaps(_, _, _, _)
ReplaceGaps(s, i, left, right) ==
    IF i > Len(s) THEN << >>
    ELSE << s[i] >> \o ReplaceGaps(s, IF GapAt(s, i, left, right) THEN i + SpaceRun(s, i) + 1 ELSE i + 1,
                                   left, right)

\* cleanedText (lines 831-834)
CleanedText(text) ==
    ReplaceGaps(ReplaceGaps(ReplaceGaps(Trim(text), 1, "script", "script"), 1, "script", "alnum"),
                1, "alnum", "script")

\* The worker answered with text; it is normalised when it is not blank (line 830).
normalize ==
    /\ Stepped("normalize")
    /\ cleanedText' = IF Trim(recognized) # << >> THEN CleanedText(recognized) ELSE cleanedText
    /\ UNCHANGED << docVars, histVars, toolVars, gestureVars, inputVars, asyncVars, canvasSize,
                    exportVars, region, detected, recognized, zoom, crashed, obs >>

\* --------------------------------------------------------------- export
\* Lengths on a PPTX slide are inches, kept as numerators over one
\* denominator, 1000 * canvasWidth, so that obj.x * (PPTX_WIDTH / canvasWidth)
\* and the text corrections of lines 282-285 are exact.
PptxDen(canvasWidth) == 1000 * canvasWidth

\* v * scaleFactor                                             (lines 275-278)
Scaled(v) == v * PptxWidth * 1000

\* (obj.fontSize || 100) * scaleFactor * 72 * 0.9              (line 282)
FontSizePt(obj) ==
    (IF obj.fontSize = NoFontSize THEN DefaultFontSize ELSE obj.fontSize) * PptxWidth * 72 * 900

\* Math.round of the positive fraction num / den
Round(num, den) == (2 * num + den) \div (2 * den)

\* What slide.addShape / slide.addText are given for obj (lines 274-299).
PptxShape(obj, canvasWidth) ==
    IF obj.type = "mask"
    THEN [type |-> "rect", x |-> Scaled(obj.x), y |-> Scaled(obj.y), w |-> Scaled(obj.width),
          h |-> Scaled(obj.height), den |-> PptxDen(canvasWidth), color |-> obj.color,
          text |-> NoContent, fontSize |-> NoFontSize]
    ELSE [type |-> "text", x |-> Scaled(obj.x),
          y |-> Scaled(obj.y) - (FontSizePt(obj) * 5) \div 1000,
          w |-> Scaled(obj.width),
          h |-> Max(Scaled(obj.height), (FontSizePt(obj) * 20) \div 1000),
          den |-> PptxDen(canvasWidth), color |-> obj.color,
          text |-> obj.content, fontSize |-> Round(FontSizePt(obj), PptxDen(canvasWidth))]

\* One slide of the presentation: the raster stretched over the whole slide
\* (lines 265-270) and one shape per object.
PptxPage(slide) ==
    [slide |-> slide.id, size |-> canvasSize[slide.id],
     shapes |-> [i \in 1..Len(slide.objects) |-> PptxShape(slide.objects[i], canvasSize[slide.id][1])]]

\* One page of a PDF (lines 336-368) or one PNG (lines 391-399, 405-412):
\* the raster with the objects painted over it pixel for pixel.
PaintedPage(slide) == [slide |-> slide.id, size |-> canvasSize[slide.id], objects |-> slide.objects]

ExportFile(kind, target) ==
    [kind |-> kind,
     pages |-> [i \in 1..Len(target) |->
                  IF kind = "pptx" THEN PptxPage(heap[target[i]]) ELSE PaintedPage(heap[target[i]])]]

\* A click on one of the export buttons (lines 1073-1126); the editor is not touched.
ExportEvent(name) ==
    /\ Delivered(name)
    /\ focus = "none"
    /\ Len(slides) > 0
    /\ UNCHANGED << docVars, histVars, toolVars, gestureVars, inputVars, asyncVars, canvasSize, crashed >>

\* handleExportAll / handleExportCurrent (lines 315-319): the slides exported.
ExportTarget(all) == IF all THEN slides ELSE << currentSlideRef >>

\* generatePPTX (lines 255-313) up to its await; failAt is the slide whose
\* processing throws, 0 when none does.  A throw is caught and `finally`
\* resets the flag in the same handler.
exportPPTX(all, failAt) ==
    /\ ExportEvent("exportPPTX")
    /\ ~isExporting
    /\ all \/ HasCurrentSlide
    /\ failAt <= Len(ExportTarget(all))
    /\ IF failAt = 0
       THEN /\ isExporting' = TRUE
            /\ exports' = Append(exports, ExportFile("pptx", ExportTarget(all)))
       ELSE /\ isExporting' = FALSE
            /\ exports' = exports
    /\ UNCHANGED << downloads, files >>
    /\ Observe

\* pres.writeFile settled and left the flag alone when it was rejected.
exportSettledOnSuccess(ok) ==
    /\ Delivered("exportSettled")
    /\ \E k \in 1..Len(exports) :
       /\ files' = IF ok THEN Append(files, exports[k]) ELSE files
       /\ exports' = RemoveAt(exports, k)
    /\ isExporting' = IF ok THEN FALSE ELSE isExporting
    /\ UNCHANGED << docVars, histVars, toolVars, gestureVars, inputVars, asyncVars, canvasSize,
                    crashed, downloads >>
    /\ Observe

\* The rest of generatePPTX (lines 306-312): pres.writeFile resolved, the
\* file is written, or was rejected; the flag is reset either way.
exportSettled(ok) ==
    /\ Delivered("exportSettled")
    /\ \E k \in 1..Len(exports) :
       /\ files' = IF ok THEN Append(files, exports[k]) ELSE files
       /\ exports' = RemoveAt(exports, k)
    /\ isExporting' = FALSE
    /\ UNCHANGED << docVars, histVars, toolVars, gestureVars, inputVars, asyncVars, canvasSize,
                    crashed, downloads >>
    /\ Observe

\* generatePDF (lines 321-383), which never awaits: pdf.save is reached when
\* no slide throws.
exportPDF(all, failAt) ==
    /\ ExportEvent("exportPDF")
    /\ ~isExporting
    /\ all \/ HasCurrentSlide
    /\ failAt <= Len(ExportTarget(all))
    /\ files' = IF failAt = 0 THEN Append(files, ExportFile("pdf", ExportTarget(all))) ELSE files
    /\ isExporting' = FALSE
    /\ UNCHANGED << exports, downloads >>
    /\ Observe

\* handleExportPNGCurrent (lines 391-401); a throw leaves the handler.
exportPNGCurrent(fails) ==
    /\ ExportEvent("exportPNGCurrent")
    /\ HasCurrentSlide
    /\ files' = IF fails THEN files ELSE Append(files, ExportFile("png", << currentSlideRef >>))
    /\ UNCHANGED << isExporting, exports, downloads >>
    /\ Observe

\* The links handleExportPNGAll has scheduled when the forEach ends or is left
\* by a throw at slide failAt: one setTimeout per slide already processed.
ScheduledBefore(failAt) ==
    [i \in 1..(IF failAt = 0 THEN Len(slides) ELSE failAt - 1) |-> ExportFile("png", << slides[i] >>)]

\* handleExportPNGAll (lines 403-415).
exportPNGAll(failAt) ==
    /\ ExportEvent("exportPNGAll")
    /\ failAt <= Len(slides)
    /\ downloads' = downloads \o ScheduledBefore(failAt)
    /\ UNCHANGED << isExporting, exports, files >>
    /\ Observe

\* A timer of handleExportPNGAll fires: link.click() (line 413).
downloadFire ==
    /\ Delivered("downloadFire")
    /\ \E k \in 1..Len(downloads) :
       /\ files' = Append(files, downloads[k])
       /\ downloads' = RemoveAt(downloads, k)
    /\ UNCHANGED << docVars, histVars, toolVars, gestureVars, inputVars, asyncVars, canvasSize,
                    crashed, isExporting, exports >>
    /\ Observe

Next ==
    \/ undo
    \/ redo
    \/ resetInternalStateUpdate
    \/ \E t \in Tools, byButton \in BOOLEAN : setActiveTool(t, byButton)
    \/ \E down \in BOOLEAN : keySpace(down)
    \/ \E index \in SlideIndices : clickSlide(index)
    \/ deleteSelected
    \/ bringToFront
    \/ \E delta \in { -1, 1 } : clickFontSize(delta)
    \/ focusFontSize
    \/ \E val \in TypedFontSizes : changeFontSize(val)
    \/ blurFontSize
    \/ \E delta \in { -1, 1 } : wheelFontSize(delta)
    \/ \E color \in PickerColors : changeColor(color)
    \/ blurColor
    \/ \E value \in TypedContents : changeText(value)
    \/ blurText
    \/ commitText
    \/ \E pos \in PosSet, ctrlKey \in BOOLEAN, button \in { 0, 1 } : mouseDown(pos, ctrlKey, button)
    \/ \E pos \in PosSet : mouseMove(pos)
    \/ mouseUp
    \/ \E pos \in PosSet : doubleClick(pos)
    \/ uploadStart
    \/ \E n \in LoadedCounts, size \in RasterSizes, failed \in BOOLEAN : uploadDone(n, size, failed)
    \/ \E outcome \in OcrOutcomes : ocrDone(outcome)

Spec == Init /\ [][Next]_vars

\* Sessions that start one entry short of the history limit; only the
\* operations that record, restore or ingest are delivered.
InitEvict == InitFull /\ InitCanvas /\ InitExport /\ InitView /\ InitOcr /\ budget = FullSteps

NextEvict ==
    \/ undo
    \/ redo
    \/ resetInternalStateUpdate
    \/ \E delta \in { -1, 1 } : clickFontSize(delta)
    \/ deleteSelected
    \/ uploadStart
    \/ \E n \in LoadedCounts, size \in RasterSizes, failed \in BOOLEAN : uploadDone(n, size, failed)

SpecEvict == InitEvict /\ [][NextEvict]_vars

\* Sessions in which the selected text box is resized: presses and moves at
\* the positions of its handles, of its edges and around the size floor.
ResizeXs == { 0, 40, 440, 830, 835, 840, 900 }
ResizeYs == { 0, 40, 115, 180, 185, 190, 250 }
ResizePosSet == { << x, y >> : x \in ResizeXs, y \in ResizeYs }

InitResize == InitLoaded /\ InitCanvas /\ InitExport /\ InitView /\ InitOcr /\ budget = ResizeSteps

NextResize ==
    \/ \E pos \in ResizePosSet : mouseDown(pos, FALSE, 0)
    \/ \E pos \in ResizePosSet : mouseMove(pos)
    \/ mouseUp

SpecResize == InitResize /\ [][NextResize]_vars

\* Sessions in which the loaded document is exported; FailAts are the slides
\* at which an export may throw (0: none).
FailAts == 0..2

InitRasters == canvasSize \in [1..2 -> RasterSizes]

InitExporting == InitLoaded /\ InitRasters /\ InitExport /\ InitView /\ InitOcr /\ budget = ExportSteps

NextExport ==
    \/ \E all \in BOOLEAN, failAt \in FailAts : exportPPTX(all, failAt)
    \/ \E ok \in BOOLEAN : exportSettled(ok)
    \/ \E all \in BOOLEAN, failAt \in FailAts : exportPDF(all, failAt)
    \/ \E fails \in BOOLEAN : exportPNGCurrent(fails)
    \/ \E failAt \in FailAts : exportPNGAll(failAt)
    \/ downloadFire
    \/ \E index \in SlideIndices : clickSlide(index)
    \/ deleteSelected

SpecExport == InitExporting /\ [][NextExport]_vars

\* Sessions in which ingestions, scans and PPTX exports are started and
\* settle.  The user's events stop early enough for every pending call to
\* settle within the session; a call that is pending settles at some time,
\* because its collaborator returns or throws.
Pending == Len(uploads) + Len(ocrs) + Len(exports)

Reserve == budget > Pending + 1

InitLive == (InitLoaded \/ InitScanning) /\ InitCanvas /\ InitExport /\ InitView /\ InitOcr /\ budget = LiveSteps

NextLive ==
    \/ Reserve /\ uploadStart
    \/ \E n \in LoadedCounts, size \in RasterSizes, failed \in BOOLEAN : uploadDone(n, size, failed)
    \/ Reserve /\ \E pos \in PosSet : mouseDown(pos, FALSE, 0)
    \/ Reserve /\ \E pos \in PosSet : mouseMove(pos)
    \/ Reserve /\ mouseUp
    \/ \E outcome \in OcrOutcomes : ocrDone(outcome)
    \/ Reserve /\ \E all \in BOOLEAN, failAt \in FailAts : exportPPTX(all, failAt)
    \/ \E ok \in BOOLEAN : exportSettled(ok)

\* The continuation of one of the pending calls runs: the step that delivers
\* the named event (uploadDone, ocrDone, exportSettled), whatever its outcome.
\* It is possible exactly when the continuation's action is.
Settles(name, pending) ==
    /\ ~crashed
    /\ budget > 0
    /\ Len(pending) > 0
    /\ budget' = budget - 1
    /\ lastEvent' = name

SpecLive ==
    /\ InitLive
    /\ [][NextLive]_vars
    /\ WF_<< budget, lastEvent >>(Settles("uploadDone", uploads))
    /\ WF_<< budget, lastEvent >>(Settles("ocrDone", ocrs))
    /\ WF_<< budget, lastEvent >>(Settles("exportSettled", exports))

\* Calls of detectTextColor on every region of RegionWidth x RegionHeight
\* pixels whose pixels are two greys of one bucket or a red.
PixelValues == { << 32, 32, 32 >>, << 47, 32, 32 >>, << 200, 0, 0 >> }

Regions ==
    { [width |-> RegionWidth, height |-> RegionHeight, data |-> d] :
        d \in [1..(RegionWidth * RegionHeight) -> PixelValues] }

InitDetect ==
    /\ InitLoaded /\ InitCanvas /\ InitExport /\ InitView
    /\ region \in Regions /\ detected = NoColor /\ recognized = << >> /\ cleanedText = NoText
    /\ budget = DetectSteps

NextDetect == detect

SpecDetect == InitDetect /\ [][NextDetect]_vars

\* Normalisation of every text of at most MaxTextLen characters made of a
\* hiragana, a kanji, a Latin letter, a digit, a space and an ideographic space.
TextChars == { 12354, 19968, 97, 49, 32, 12288 }

RECURSIVE Texts(_)
Texts(n) == IF n = 0 THEN { << >> } ELSE Texts(n - 1) \cup { Append(t, c) : t \in Texts(n - 1), c \in TextChars }

InitNormalize ==
    /\ InitLoaded /\ InitCanvas /\ InitExport /\ InitView
    /\ region = NoRegion /\ detected = NoColor
    /\ recognized \in Texts(MaxTextLen) /\ cleanedText = NoText
    /\ budget = NormalizeSteps

NextNormalize == normalize

SpecNormalize == InitNormalize /\ [][NextNormalize]_vars

\* Sessions in which a region is swept with the scan tool, from (60,60) to
\* (70,5), on either slide of the loaded document, and the history is walked
\* while the OCR worker has not answered.
SweepPosSet == { << 60, 60 >>, << 70, 5 >> }

InitScan == InitLoaded /\ InitCanvas /\ InitExport /\ InitView /\ InitOcr /\ budget = ScanSteps

NextScan ==
    \/ undo
    \/ redo
    \/ setActiveTool("scan", FALSE)
    \/ \E index \in SlideIndices : clickSlide(index)
    \/ \E pos \in SweepPosSet : mouseDown(pos, FALSE, 0)
    \/ \E pos \in SweepPosSet : mouseMove(pos)
    \/ mouseUp
    \/ \E outcome \in OcrOutcomes : ocrDone(outcome)

SpecScan == InitScan /\ [][NextScan]_vars

\* ------------------------------------------------------------ keyboard
\* The keys handleKeyDown looks at; "z", "y", "=", "-" and "0" stand for the
\* key pressed with Ctrl or Meta.
Keys == { "Delete", "z", "y", "s", "m", "t", "e", "r", "h", "=", "-", "0", " " }

ToolOfKey(key) ==
    CASE key = "s" -> "select" [] key = "m" -> "mask" [] key = "t" -> "text"
      [] key = "e" -> "eyedropper" [] key = "r" -> "scan" [] key = "h" -> "pan"

\* prev || 1.0
ZoomOrDefault == IF zoom = NoZoom THEN DefaultZoom ELSE zoom

\* A keydown that only changes the zoom (lines 979-987).
SetZoom(z) ==
    /\ Stepped("keyDown")
    /\ zoom' = z
    /\ UNCHANGED << canvasSize, exportVars, ocrVars >>
    /\ Idle
    /\ Observe

\* A keydown the listener returns from without doing anything.
KeyIgnored == SetZoom(zoom)

\* handleKeyDown (lines 952-1001).
keyDown(key) ==
    IF KeyboardBlocked THEN KeyIgnored
    ELSE IF key = "Delete" THEN (IF selectedObjectId # NoId THEN deleteSelected ELSE KeyIgnored)
    ELSE IF key = "z" THEN undo
    ELSE IF key = "y" THEN redo
    ELSE IF key \in { "s", "m", "t", "e", "r", "h" } THEN setActiveTool(ToolOfKey(key), FALSE)
    ELSE IF key = "=" THEN SetZoom(Min(MaxZoom, ZoomOrDefault + 1))
    ELSE IF key = "-" THEN SetZoom(Max(MinZoom, ZoomOrDefault - 1))
    ELSE IF key = "0" THEN SetZoom(DefaultZoom)
    ELSE IF ~isPanningMode THEN keySpace(TRUE) ELSE KeyIgnored

\* Sessions at the keyboard: keys pressed before, during and after an
\* in-place text edit of the selected text box.
InitKeys == InitLoaded /\ InitCanvas /\ InitExport /\ InitView /\ InitOcr /\ budget = KeySteps

NextKeys ==
    \/ \E key \in Keys : keyDown(key)
    \/ keySpace(FALSE)
    \/ resetInternalStateUpdate
    \/ \E pos \in PosSet : doubleClick(pos)
    \/ \E value \in TypedContents : changeText(value)
    \/ blurText
    \/ commitText

SpecKeys == InitKeys /\ [][NextKeys]_vars

\* ================================================================ claims
\* The history as a reader of its entries sees it.
EntryValue(e) ==
    [slides |-> [i \in 1..Len(e.slides) |-> Slide(e.slides[i].id, EntryObjects(e.slides[i]))],
     currentSlideIndex |-> e.currentSlideIndex]

HistoryValues == [k \in 1..Len(history) |-> EntryValue(history[k])]

Front(s) == SubSeq(s, 1, Len(s) - 1)

IsPrefix(s, t) == Len(s) <= Len(t) /\ s = SubSeq(t, 1, Len(s))

CursorValid == historyIndex >= 0 /\ historyIndex < Len(history)

\* Every slide named in entry e shows the annotation sequence e stores for it.
EntryMatchesDisplay(e) ==
    \A k \in 1..Len(e.slides), i \in 1..Len(slides) :
        heap[slides[i]].id = e.slides[k].id => heap[slides[i]].objects = EntryObjects(e.slides[k])

\* The step is a handler other than a restore or an ingestion.
NotRestoreOrIngestion == lastEvent' \notin { "undo", "redo", "uploadDone", "resetInternalStateUpdate" }

\* ---------------------------------------------------------------- C1
\* C1: after N recorded edits followed by N undos the annotation sequences of
\* all slides equal what they were before the first edit, and the selection
\* and the in-place text-edit target are cleared.
C1_UndoRunRestoresStart ==
    obs.trip.phase = "undos" /\ obs.trip.undos = obs.trip.edits =>
        /\ Annotations = obs.trip.base
        /\ selectedObjectId = NoId
        /\ editingTextId = NoId

\* ---------------------------------------------------------------- C2
\* C2: from a state in which undo is possible (and nothing is in progress),
\* undo immediately followed by redo shows again exactly the annotation
\* sequences displayed before the undo.
C2_UndoThenRedoRestores ==
    [][lastEvent = "undo" /\ obs.quiet /\ obs.prevIndex > 0 /\ lastEvent' = "redo"
        => Annotations' = obs.prev]_vars

\* ---------------------------------------------------------------- C3
\* C3: an edit recorded while entries lie after the cursor (that is, after one
\* or more undos) discards those entries: the entries up to the cursor are
\* kept, the new one follows them and the cursor is at this last entry, so
\* that redo has nothing to restore.
C3_EditAfterUndoTruncates ==
    [][Recorded /\ historyIndex >= 0 /\ historyIndex < Len(history) - 1
        => /\ Front(history') = SliceTo(history, historyIndex + 1)
           /\ historyIndex' = Len(history') - 1]_vars

\* ---------------------------------------------------------------- C4
\* A stored entry that would be the 51st: the history is full, the cursor is
\* at its last entry and the handler that stores saw this cursor.
StoresBeyondLimit ==
    /\ Len(history) = HistoryLimit /\ historyIndex = HistoryLimit - 1
    /\ history' # history
    /\ lastEvent' = "uploadDone" => Len(uploads) = 1 /\ uploads[1].historyIndex = historyIndex

\* C4: the history never holds more than 50 entries; storing an entry into a
\* full history drops the oldest one: the other 49 move down one place, the
\* new entry is the 50th and the cursor stays on it, so the dropped state is
\* below the floor of undo.
C4_HistoryBounded ==
    /\ [](Len(history) <= HistoryLimit)
    /\ [][StoresBeyondLimit
           => /\ Len(history') = HistoryLimit
              /\ Front(history') = Tail(history)
              /\ historyIndex' = HistoryLimit - 1]_vars

C4_Witness ==
    /\ lastEvent = "clickFontSize"
    /\ Len(history) = HistoryLimit /\ historyIndex = HistoryLimit - 1
    /\ history[1] = InitEntry(<< InitMask >>)

\* ---------------------------------------------------------------- C5
\* C5: whenever no pointer gesture, in-place text edit or colour / font size
\* input is in progress, the entry at the cursor matches the displayed state.
C5_CursorMatchesDisplay ==
    Quiescent /\ Len(history) > 0 =>
        CursorValid /\ EntryMatchesDisplay(history[historyIndex + 1])

\* ---------------------------------------------------------------- C6
\* C6: undo with the cursor at index 0 (or no entry at all) and redo with the
\* cursor at the last entry change neither the slides, the history, the
\* cursor, the active slide index, the selection, the text-edit target nor
\* the re-entrancy guard.
C6_UndoRedoAtEndsAreNoOps ==
    [][( \/ lastEvent' = "undo" /\ historyIndex <= 0
         \/ lastEvent' = "redo" /\ historyIndex >= Len(history) - 1 )
        => UNCHANGED << heap, slides, history, historyIndex, currentSlideIndex, selectedObjectId,
                        editingTextId, isInternalStateUpdate >>]_vars

C6_Witness ==
    /\ lastEvent = "undo" /\ obs.prevIndex = 0 /\ historyIndex = 0
    /\ Len(history) > 1 /\ Len(slides) > 0

\* ---------------------------------------------------------------- C7
\* C7: a stored entry never changes.  A step that stores nothing leaves the
\* annotation data of every entry as it was; a step that stores an entry
\* leaves the entries it keeps as they were (the kept ones are a prefix of
\* the old history, or of its tail when the oldest entry was dropped).  This
\* covers steps that mutate slides restored by undo/redo.
C7_EntriesNeverChange ==
    [][IF << history', historyIndex' >> = << history, historyIndex >>
       THEN HistoryValues' = HistoryValues
       ELSE \/ HistoryValues' = HistoryValues
            \/ IsPrefix(Front(HistoryValues'), HistoryValues)
            \/ Len(history) = HistoryLimit /\ IsPrefix(Front(HistoryValues'), Tail(HistoryValues))]_vars

\* A restored object was changed in place and the entry it came from was not.
C7_Witness ==
    /\ lastEvent = "mouseMove" /\ obs.gesture = "drag"
    /\ isInternalStateUpdate
    /\ CursorValid
    /\ ~EntryMatchesDisplay(history[historyIndex + 1])

\* ---------------------------------------------------------------- C8
\* C8: while the re-entrancy guard set by a restore has not been reset, a
\* handler that requests a snapshot leaves the history and the cursor as
\* they are.
C8_GuardSkipsSnapshot ==
    [][isInternalStateUpdate /\ NotRestoreOrIngestion
        => UNCHANGED << history, historyIndex >>]_vars

\* A drag ended before the guard was reset.
C8_Witness ==
    /\ lastEvent = "mouseUp" /\ obs.gesture = "dragged"
    /\ isInternalStateUpdate
    /\ Annotations # obs.base

\* ---------------------------------------------------------------- C9
\* C9: a drag or resize gesture stores no entry during its moves and exactly
\* one at its pointer-up (stated for a pointer-up outside the guard window
\* of C8); one undo right after restores the annotation sequences as they
\* were before the pointer-down.
C9_GestureIsOneUndoStep ==
    [][/\ lastEvent' = "mouseMove" => UNCHANGED << history, historyIndex >>
       /\ lastEvent' = "mouseUp" /\ obs.gesture \in { "drag", "resize" } /\ ~isInternalStateUpdate
            => /\ Front(history') = SliceTo(history, historyIndex + 1)
               /\ historyIndex' = historyIndex + 1
       /\ ( /\ lastEvent' = "undo" /\ obs.gesture \in { "dragged", "resized" }
            /\ historyIndex = obs.prevIndex + 1 /\ historyIndex > 0 )
            => Annotations' = obs.base]_vars

\* ---------------------------------------------------------------- C10
SmallDraft ==
    /\ isDrawing /\ currentObjectRef # NoDraft /\ currentObjectRef.type = "mask"
    /\ currentObjectRef.width <= MinDrawSize \/ currentObjectRef.height <= MinDrawSize

C11_WestResizeKeepsRightEdge ==
    [][lastEvent' = "mouseMove" /\ Includes(activeHandle, "w") /\ HasSelectedObject
       => /\ HasSelectedObject'
          /\ selectedObject'.x + selectedObject'.width = selectedObject.x + selectedObject.width
          /\ selectedObject'.width >= MinResizeSize]_vars

\* A move with the w handle far to the right of the right edge stopped at the floor.
C11_Witness ==
    /\ lastEvent = "mouseMove" /\ activeHandle = "w" /\ HasSelectedObject
    /\ selectedObject.width = MinResizeSize
    /\ selectedObject.x = 40 + DefaultTextWidth - MinResizeSize

\* ---------------------------------------------------------------- C12
\* C12: after every pointer-up or pointer-leave, whatever gestures were in
\* progress, no transaction flag remains set: isDrawing, isDragging and
\* isPanning are false, the active handle is none and the draft is none.
C12_PointerUpClearsFlags ==
    [][lastEvent' = "mouseUp"
       => /\ ~isDrawing' /\ ~isDragging' /\ ~isPanning'
          /\ activeHandle' = NoHandle
          /\ currentObjectRef' = NoDraft]_vars

\* ---------------------------------------------------------------- C13
\* C13: at any time at most one OCR operation and at most one export are in
\* flight: no step starts an OCR while isScanning holds, and no export is
\* started while isExporting holds.
C13_OneOcrOneExport ==
    /\ [](Len(ocrs) <= 1 /\ Len(exports) <= 1)
    /\ [][isScanning => Len(ocrs') <= Len(ocrs)]_vars
    /\ [][isExporting => lastEvent' \notin { "exportPPTX", "exportPDF", "exportPNGCurrent",
                                              "exportPNGAll" }]_vars

\* ---------------------------------------------------------------- C14
\* The step added at most its own result to the document it found: every
\* slide is still there with the objects it had, in order, possibly followed
\* by new ones, new slides come after the old ones, and the history keeps
\* the entries up to the cursor, followed by at most one new entry.
AppliedToCurrent ==
    /\ Len(Annotations') >= Len(Annotations)
    /\ \A i \in 1..Len(Annotations) :
          /\ Annotations'[i].id = Annotations[i].id
          /\ IsPrefix(Annotations[i].objects, Annotations'[i].objects)
    /\ \/ HistoryValues' = HistoryValues
       \/ Front(HistoryValues') = SliceTo(HistoryValues, historyIndex + 1)

\* C14: when a pending OCR or ingestion completes, its result is applied to
\* the document as it stands at completion: every change made while it was
\* pending is still present afterwards and only its own result is added.
C14_CompletionAppliesToCurrent ==
    [][lastEvent' \in { "ocrDone", "uploadDone" } => AppliedToCurrent]_vars

\* ---------------------------------------------------------------- C15
\* What C15 and C16 say a failure leaves alone.
DocumentAndHistoryUnchanged ==
    /\ Annotations' = Annotations
    /\ HistoryValues' = HistoryValues
    /\ historyIndex' = historyIndex
    /\ currentSlideIndex' = currentSlideIndex

\* C15: when the OCR collaborator fails the error is caught; the slides with
\* their annotation sequences, the history, the cursor, the selection and the
\* tool mode are as they were, and isScanning is false afterwards.  The same
\* are left alone by the pointer-up that starts the scan.
C15_OcrFailureChangesNothing ==
    [][(ocrDone("error") \/ Len(ocrs') > Len(ocrs))
       => /\ DocumentAndHistoryUnchanged
          /\ selectedObjectId' = selectedObjectId
          /\ activeTool' = activeTool
          /\ ocrDone("error") => ~isScanning' /\ ~crashed']_vars

\* A scan started in this session has failed and the scan tool is still active.
C15_Witness ==
    /\ lastEvent = "ocrDone" /\ ~isScanning /\ ocrs = << >>
    /\ activeTool = "scan" /\ Annotations = obs.prev

ExportFails ==
    \/ \E all \in BOOLEAN, failAt \in FailAts \ { 0 } : exportPPTX(all, failAt)
    \/ \E all \in BOOLEAN, failAt \in FailAts \ { 0 } : exportPDF(all, failAt)
    \/ \E failAt \in FailAts \ { 0 } : exportPNGAll(failAt)
    \/ exportPNGCurrent(TRUE)
    \/ exportSettled(FALSE)

\* C17: for every export target (PPTX, PDF, PNG) a failure while processing
\* any one slide aborts the whole export: no file is written for any slide of
\* that export, at once or by a write left pending.
C17_FailedExportWritesNothing ==
    [][ExportFails => /\ files' = files
                      /\ Len(downloads') <= Len(downloads)
                      /\ Len(exports') <= Len(exports)]_vars

RECURSIVE Gcd(_, _)
Gcd(a, b) == IF b = 0 THEN a ELSE Gcd(b, a % b)

Ratio(a, b) == LET g == Gcd(Abs(a), Abs(b)) IN << a \div g, b \div g >>

RatioTimes(r, s) ==
    LET u == Ratio(r[1], s[2])
        v == Ratio(s[1], r[2])
    IN  << u[1] * v[1], u[2] * v[2] >>

\* A length on the exported slide as a fraction of the slide's width, height.
OfPptxWidth(num, den) == RatioTimes(Ratio(num, den), Ratio(1, PptxWidth))
OfPptxHeight(num, den) == RatioTimes(Ratio(num, den), Ratio(1000, PptxHeightMilli))

\* The slide of the document that a page of the presentation was made from.
PageSlide(page) == heap[CHOOSE r \in 1..Len(heap) : heap[r].id = page.slide]

\* Every shape of the page sits at the fractions of the slide that its object
\* has of the raster.
FractionsKept(page) ==
    \A i \in 1..Len(page.shapes) :
        LET shape == page.shapes[i]
            obj == PageSlide(page).objects[i]
        IN  /\ OfPptxWidth(shape.x, shape.den) = Ratio(obj.x, page.size[1])
            /\ OfPptxWidth(shape.w, shape.den) = Ratio(obj.width, page.size[1])
            /\ OfPptxHeight(shape.y, shape.den) = Ratio(obj.y, page.size[2])
            /\ OfPptxHeight(shape.h, shape.den) = Ratio(obj.height, page.size[2])

\* C19: for every raster size and every annotation object, the PPTX export
\* places the object so that its x and width as a fraction of the target
\* slide width, and its y and height as a fraction of the target slide
\* height, equal the same fractions of the raster width and height.
C19_PptxKeepsFractions ==
    [][lastEvent' = "exportPPTX" /\ Len(exports') > Len(exports)
        => \A p \in 1..Len(exports'[Len(exports')].pages) :
               FractionsKept(exports'[Len(exports')].pages[p])]_vars

\* ---------------------------------------------------------------- C20
\* The events of the editing operations: text placement and duplicate
\* (mouseDown), drag and resize (mouseMove, mouseUp), mask draw (mouseUp),
\* recolour, refont, retype, delete, bringToFront and the OCR commit.
EditingEvents ==
    { "mouseDown", "mouseMove", "mouseUp", "changeColor", "clickFontSize", "changeFontSize",
      "blurFontSize", "wheelFontSize", "changeText", "commitText", "blurText",
      "deleteSelected", "bringToFront", "ocrDone" }

\* The ids of the displayed slides and the annotation sequence of one of them.
SlideIdsOf(live) == { live[i].id : i \in 1..Len(live) }

SequenceOf(live, id) == live[CHOOSE i \in 1..Len(live) : live[i].id = id].objects

\* The slides whose annotation sequence the step changes.
ChangedSlides ==
    { id \in SlideIdsOf(Annotations) \cap SlideIdsOf(Annotations') :
        SequenceOf(Annotations', id) # SequenceOf(Annotations, id) }

\* The slide that was active when the operation began: the displayed slide,
\* or for an OCR commit the slide displayed when one of the pending scans
\* was started.
ActiveAtStart ==
    IF lastEvent' = "ocrDone"
    THEN { heap[ocrs[k].slides[ocrs[k].currentSlideIndex + 1]].id : k \in 1..Len(ocrs) }
    ELSE IF HasCurrentSlide THEN { heap[currentSlideRef].id } ELSE { }

\* C20: every editing operation changes the annotation sequence of one slide
\* only, the slide that was active when the operation began, and leaves the
\* sequences of all other slides unchanged.
C20_EditsTouchOneSlide ==
    [][lastEvent' \in EditingEvents
        => Cardinality(ChangedSlides) <= 1 /\ ChangedSlides \subseteq ActiveAtStart]_vars

\* ---------------------------------------------------------------- C21
\* The annotation objects of the whole displayed document, slide after slide.
AllObjects == Flatten([i \in 1..Len(Annotations) |-> Annotations[i].objects])

SlideIdSeq(live) == [i \in 1..Len(live) |-> live[i].id]

\* The identities found in the entry the cursor points at after the step.
TargetEntryIds == { history'[historyIndex' + 1].slides[k].id :
                      k \in 1..Len(history'[historyIndex' + 1].slides) }

Others(objs, id) == SelectSeq(objs, LAMBDA o : o.id # id)

\* C23: bringToFront moves the selected object to the end of its slide's
\* sequence, keeps the relative order of all other objects, and is
\* idempotent: applied to an object that is already last it leaves the
\* sequence unchanged.
C23_BringToFrontMovesLast ==
    [][lastEvent' = "bringToFront" /\ HasCurrentSlide /\ HasSelectedObject
        => /\ currentObjects'[Len(currentObjects')] = selectedObject
           /\ Others(currentObjects', selectedObjectId) = Others(currentObjects, selectedObjectId)
           /\ Len(currentObjects') = Len(currentObjects)
           /\ currentObjects[Len(currentObjects)].id = selectedObjectId
                 => currentObjects' = currentObjects
           /\ \A i \in 1..Len(Annotations) :
                 i # currentSlideIndex + 1 => Annotations'[i] = Annotations[i]]_vars

\* bringToFront has just moved an object that was not last to the end.
C23_Witness ==
    /\ lastEvent = "bringToFront"
    /\ Annotations # obs.prev
    /\ HasSelectedObject
    /\ currentObjects[Len(currentObjects)].id = selectedObjectId

\* ---------------------------------------------------------------- C24
\* All pixels of the region fall in one colour bucket.
Uniform(img) ==
    \A i, j \in 1..Len(img.data), k \in 1..3 : img.data[i][k] \div 16 = img.data[j][k] \div 16

\* C24: for every cropped region in which all pixels fall in one colour
\* bucket (uniform background), detectTextColor returns black (#000000).
C24_UniformRegionIsBlack ==
    detected # NoColor /\ Uniform(region)
        => detected = << "#", "0", "0", "0", "0", "0", "0" >>

\* detectTextColor answered for a region of one bucket whose centre pixel
\* differs from its edge pixels.
C24_Witness ==
    /\ detected # NoColor
    /\ Uniform(region)
    /\ PixelAt(region, 1, 1) # PixelAt(region, 0, 0)
    /\ \A i \in 1..Len(region.data) : i # 5 => region.data[i] = PixelAt(region, 0, 0)

\* ---------------------------------------------------------------- C25
\* The number of places where a character of class left is followed by white
\* space and then by a character of class right.
GapCount(s, left, right) == Cardinality({ i \in 1..Len(s) : GapAt(s, i, left, right) })

\* C25: OCR text normalization removes whitespace between two adjacent
\* script (kana/kanji) characters while preserving the spaces between a
\* script character and a Latin letter or digit, in both orders.
C25_NormalizationKeepsMixedSpaces ==
    cleanedText # NoText
        => /\ GapCount(cleanedText, "script", "script") = 0
           /\ GapCount(cleanedText, "script", "alnum") = GapCount(Trim(recognized), "script", "alnum")
           /\ GapCount(cleanedText, "alnum", "script") = GapCount(Trim(recognized), "alnum", "script")

\* ---------------------------------------------------------------- C26
\* A press of the left button at pos reaches the select branch of
\* handleMouseDown, hits no resize handle and hits an object.
ObjectPress(pos, ctrlKey) ==
    /\ mouseDown(pos, ctrlKey, 0)
    /\ HasCurrentSlide
    /\ activeTool = "select" /\ ~isPanningMode
    /\ ~(TextareaMounted /\ Contains(editingObject, pos) /\ ~NearAnyHandle(editingObject, pos))
    /\ ~(selectedObjectId # NoId /\ HasSelectedObject
          /\ HitHandle(selectedObject, pos, HandleHitSize) # NoHandle)
    /\ \E i \in 1..Len(currentObjects) : Contains(currentObjects[i], pos)

SelectPress(pos) == ObjectPress(pos, FALSE)

\* The topmost object under pos: no object after it in paint order contains pos.
Topmost(pos) ==
    currentObjects[CHOOSE i \in 1..Len(currentObjects) :
                      /\ Contains(currentObjects[i], pos)
                      /\ \A j \in (i + 1)..Len(currentObjects) : ~Contains(currentObjects[j], pos)]

\* C26: a pointer-down in select mode that hits no resize handle and carries
\* no duplicate-modifier picks the topmost object whose rectangle contains
\* the pointer, selects it, moves it to the end of the sequence keeping the
\* relative order of all other objects, and begins a drag on it.
C26_SelectPicksTopmost ==
    [][\A pos \in PosSet :
          SelectPress(pos)
              => /\ selectedObjectId' = Topmost(pos).id
                 /\ currentObjects' = Append(Others(currentObjects, Topmost(pos).id), Topmost(pos))
                 /\ isDragging'
                 /\ dragOffset' = << pos[1] - Topmost(pos).x, pos[2] - Topmost(pos).y >>]_vars

\* A press has just picked the upper of two objects lying over each other
\* and began to drag it.
C26_Witness ==
    /\ lastEvent = "mouseDown"
    /\ isDragging /\ activeHandle = NoHandle
    /\ HasSelectedObject
    /\ obs.prev = Annotations
    /\ currentObjects[Len(currentObjects)].id = selectedObjectId
    /\ \E i \in 1..(Len(currentObjects) - 1) :
          Contains(currentObjects[i], << selectedObject.x + dragOffset[1], selectedObject.y + dragOffset[2] >>)

\* ---------------------------------------------------------------- C27
\* The identities of the annotation objects of the displayed document.
ObjectIds == { AllObjects[i].id : i \in 1..Len(AllObjects) }

\* A Ctrl+press on an object appends one clone, equal to the original in all
\* but its identity, which is fresh; the clone is selected and dragged, and
\* the sequence before it is as it was.
CloneAdded ==
    \A pos \in PosSet :
        ObjectPress(pos, TRUE)
            => /\ Len(currentObjects') = Len(currentObjects) + 1
               /\ SubSeq(currentObjects', 1, Len(currentObjects)) = currentObjects
               /\ selectedObjectId' \notin ObjectIds
               /\ currentObjects'[Len(currentObjects')] = [Topmost(pos) EXCEPT !.id = selectedObjectId']
               /\ isDragging'
               /\ dragOffset' = << pos[1] - Topmost(pos).x, pos[2] - Topmost(pos).y >>

\* A pointer move of a drag leaves every object but the selected one, and
\* the order of the sequence, as they were.
DragMovesSelectedOnly ==
    lastEvent' = "mouseMove" /\ isDragging /\ HasCurrentSlide
        => /\ Len(currentObjects') = Len(currentObjects)
           /\ \A i \in 1..Len(currentObjects) :
                 /\ currentObjects'[i].id = currentObjects[i].id
                 /\ currentObjects[i].id # selectedObjectId => currentObjects'[i] = currentObjects[i]

\* C27: a pointer-down with the duplicate-modifier on an object adds one
\* clone with a fresh identity and the same kind, geometry, colour, content
\* and font size; the clone becomes the selection and the drag target, and
\* the original keeps its position in the sequence and its geometry
\* throughout the following drag.
C27_CtrlPressClones == [][CloneAdded /\ DragMovesSelectedOnly]_vars

\* A clone is being dragged: it is selected, it has left the place of its
\* original, and it equals the original in everything else.
C27_Witness ==
    /\ lastEvent = "mouseMove"
    /\ isDragging
    /\ HasSelectedObject
    /\ \E i \in 1..Len(currentObjects) :
          /\ currentObjects[i].id # selectedObjectId
          /\ << currentObjects[i].x, currentObjects[i].y >> # << selectedObject.x, selectedObject.y >>
          /\ [currentObjects[i] EXCEPT !.id = 0, !.x = 0, !.y = 0]
                = [selectedObject EXCEPT !.id = 0, !.x = 0, !.y = 0]

\* ---------------------------------------------------------------- C28
\* A press of the left button at pos reaches the text branch of handleMouseDown.
TextPress(pos) ==
    /\ \E ctrlKey \in BOOLEAN : mouseDown(pos, ctrlKey, 0)
    /\ HasCurrentSlide
    /\ activeTool = "text" /\ ~isPanningMode
    /\ ~(TextareaMounted /\ Contains(editingObject, pos) /\ ~NearAnyHandle(editingObject, pos))

\* The step appends exactly one history entry, which holds the document as
\* the step leaves it, after the entry the cursor was on.
OneEntryAppended ==
    /\ Len(history') > 0
    /\ Front(HistoryValues') = SliceTo(HistoryValues, historyIndex + 1)
    /\ [i \in 1..Len(Annotations') |-> HistoryValues'[Len(history')].slides[i].objects]
          = [i \in 1..Len(Annotations') |-> Annotations'[i].objects]

\* The step appends one text object of the default size at pos to the active
\* slide, selects it, opens it for in-place editing and returns to select.
TextPlaced(pos) ==
    /\ Len(currentObjects') = Len(currentObjects) + 1
    /\ SubSeq(currentObjects', 1, Len(currentObjects)) = currentObjects
    /\ \A i \in 1..Len(Annotations) : i # currentSlideIndex + 1 => Annotations'[i] = Annotations[i]
    /\ LET newObj == currentObjects'[Len(currentObjects')]
       IN  /\ newObj.type = "text"
           /\ << newObj.x, newObj.y >> = pos
           /\ << newObj.width, newObj.height >> = << DefaultTextWidth, DefaultTextHeight >>
           /\ newObj.id \notin ObjectIds
           /\ selectedObjectId' = newObj.id
           /\ editingTextId' = newObj.id
    /\ activeTool' = "select"

\* C28 as stated: a pointer-down in draw-text mode appends exactly one text
\* object of the fixed default size at the pointer position to the active
\* slide, makes it both the selection and the in-place text-edit target, sets
\* the tool mode to select and appends one history entry.
C28_TextPressPlacesText ==
    [][\A pos \in PosSet : TextPress(pos) => TextPlaced(pos) /\ OneEntryAppended]_vars

\* C28 amended: the same, and the history entry is appended unless the guard
\* of an undo or redo is still raised, in which case history and cursor are
\* left unchanged.
C28_TextPressOutsideGuard ==
    [][\A pos \in PosSet : TextPress(pos)
          => /\ TextPlaced(pos)
             /\ IF isInternalStateUpdate
                THEN UNCHANGED << history, historyIndex >>
                ELSE OneEntryAppended]_vars

\* A text box was just placed: it is selected, it is being edited, and its
\* entry is the last of the history.
C28_Witness ==
    /\ lastEvent = "mouseDown"
    /\ activeTool = "select"
    /\ HasSelectedObject
    /\ editingTextId = selectedObjectId
    /\ selectedObject.content = ""
    /\ historyIndex = obs.prevIndex + 1
    /\ Len(history) = historyIndex + 1
    /\ Len(obs.prev[currentSlideIndex + 1].objects) + 1 = Len(currentObjects)

\* ---------------------------------------------------------------- C29
RectOf(o) == << o.x, o.y, o.width, o.height >>

\* The step appends one text object holding the rectangle of a pending scan to
\* one slide, changes no other slide, selects the object and returns to select.
OcrTextAppended ==
    /\ Len(Annotations') = Len(Annotations)
    /\ \E i \in 1..Len(Annotations) :
          /\ Annotations'[i].id = Annotations[i].id
          /\ Len(Annotations'[i].objects) = Len(Annotations[i].objects) + 1
          /\ Front(Annotations'[i].objects) = Annotations[i].objects
          /\ LET newObj == Annotations'[i].objects[Len(Annotations'[i].objects)]
             IN  /\ newObj.type = "text"
                 /\ \E k \in 1..Len(ocrs) : RectOf(newObj) = RectOf(ocrs[k].roi)
                 /\ selectedObjectId' = newObj.id
          /\ \A j \in 1..Len(Annotations) : j # i => Annotations'[j] = Annotations[j]
    /\ activeTool' = "select"

\* C29: an OCR that completes with text appends exactly one text object with
\* the region's rectangle, selects it, sets the tool mode to select and
\* appends exactly one history entry (outside the guard window of C8); one
\* that completes with empty or whitespace-only text leaves the annotation
\* sequences, the selection, the tool mode and the history unchanged.
C29_OcrCommitsOneText ==
    [][/\ ocrDone("text")
            => /\ OcrTextAppended
               /\ ~isInternalStateUpdate => OneEntryAppended
       /\ ocrDone("empty")
            => /\ Annotations' = Annotations
               /\ selectedObjectId' = selectedObjectId
               /\ activeTool' = activeTool
               /\ HistoryValues' = HistoryValues
               /\ historyIndex' = historyIndex]_vars

\* ---------------------------------------------------------------- C30
\* The step is an eyedropper pick or a change of the colour input.
ColourPick ==
    \/ lastEvent' = "changeColor"
    \/ lastEvent' = "mouseDown" /\ activeTool = "eyedropper" /\ HasCurrentSlide

\* C30: an eyedropper pick or colour-input change made while a text object is
\* selected never changes the memorized mask colour, and one made while a
\* mask is selected never changes the memorized text colour.
C30_ColourMemoriesIndependent ==
    [][ColourPick /\ HasSelectedObject
          => /\ selectedObject.type = "text" => maskColor' = maskColor
             /\ selectedObject.type = "mask" => textColor' = textColor]_vars

\* ---------------------------------------------------------------- C31
\* A step of a pan gesture: a pointer-down that takes the pan branch, or a
\* move or pointer-up while the pan is tracked.
PanStep ==
    \/ /\ \E pos \in PosSet, ctrlKey \in BOOLEAN, button \in { 0, 1 } :
             /\ mouseDown(pos, ctrlKey, button)
             /\ isPanningMode \/ activeTool = "pan" \/ button = 1
       /\ HasCurrentSlide
    \/ lastEvent' \in { "mouseMove", "mouseUp" } /\ isPanning

\* C31: a pan gesture (pointer-down, moves and pointer-up in pan mode, with
\* space held, or with the middle button) leaves slides, annotation
\* sequences, selection, tool mode, history and cursor unchanged.
C31_PanChangesNoDocument ==
    [][PanStep
          => /\ canvasSize' = canvasSize
             /\ Annotations' = Annotations
             /\ selectedObjectId' = selectedObjectId
             /\ activeTool' = activeTool
             /\ HistoryValues' = HistoryValues
             /\ historyIndex' = historyIndex]_vars

\* A pan was begun with the middle button over the selected text box and the
\* pointer has moved; the selection is still there.
C31_Witness ==
    /\ lastEvent = "mouseMove" /\ isPanning
    /\ activeTool = "select" /\ ~isPanningMode
    /\ HasSelectedObject

\* ---------------------------------------------------------------- C32
\* C32: while an in-place text edit is active no keyboard shortcut takes
\* effect: Delete/Backspace, undo/redo, tool letters, zoom keys and space
\* leave the annotation sequences, history, cursor, tool mode, selection and
\* zoom unchanged.
C32_EditBlocksShortcuts ==
    [][((\E key \in Keys : keyDown(key)) \/ keySpace(FALSE)) /\ editingTextId # NoId
          => /\ Annotations' = Annotations
             /\ HistoryValues' = HistoryValues
             /\ historyIndex' = historyIndex
             /\ activeTool' = activeTool
             /\ selectedObjectId' = selectedObjectId
             /\ zoom' = zoom]_vars

\* A key went down while the selected text box was being edited, with an
\* entry to undo and a selection to delete.
C32_Witness ==
    /\ lastEvent = "keyDown"
    /\ editingTextId # NoId /\ editingTextId = selectedObjectId
    /\ focus = "textarea"
    /\ historyIndex > 0

\* ---------------------------------------------------------------- C33
\* deleteSelected runs with a selection and no in-place text edit.
DeleteKey == deleteSelected /\ editingTextId = NoId

\* C33: Delete/Backspace with a selection and no text edit active removes
\* exactly the selected object from the active slide, keeps the order of the
\* remaining objects, clears the selection and the text-edit target, and
\* appends exactly one history entry (outside the guard window of C8).
C33_DeleteRemovesSelection ==
    [][DeleteKey
          => /\ HasCurrentSlide
             /\ Len(Annotations') = Len(Annotations)
             /\ Len(currentObjects') = Len(currentObjects) - 1
             /\ currentObjects' = Others(currentObjects, selectedObjectId)
             /\ \A i \in 1..Len(Annotations) :
                   i # currentSlideIndex + 1 => Annotations'[i] = Annotations[i]
             /\ selectedObjectId' = NoId
             /\ editingTextId' = NoId
             /\ ~isInternalStateUpdate => OneEntryAppended]_vars

\* ---------------------------------------------------------------- C34
\* What one resize move with handle may do to the rectangle old, giving new.
ResizeKeeps(handle, old, new) ==
    /\ Includes(handle, "e") => new.x = old.x /\ new.width >= MinResizeSize
    /\ Includes(handle, "w") => new.x + new.width = old.x + old.width /\ new.width >= MinResizeSize
    /\ Includes(handle, "s") => new.y = old.y /\ new.height >= MinResizeSize
    /\ Includes(handle, "n") => new.y + new.height = old.y + old.height /\ new.height >= MinResizeSize
    /\ handle \in { "n", "s" } => new.x = old.x /\ new.width = old.width
    /\ handle \in { "e", "w" } => new.y = old.y /\ new.height = old.height

C36_CursorInsideHistory ==
    Len(history) > 0 => historyIndex >= 0 /\ historyIndex <= Len(history) - 1

\* ---------------------------------------------------------------- C37
\* C37: whenever slides exist the active slide index is a valid index into
\* the slide list: 0 <= currentSlideIndex < slides.length.
C37_ActiveSlideExists ==
    Len(slides) > 0 => currentSlideIndex >= 0 /\ currentSlideIndex < Len(slides)

\* ---------------------------------------------------------------- C38
\* The selection and the text-edit target are none or name an object of the
\* displayed slide.
TargetsOnActiveSlide ==
    /\ selectedObjectId # NoId => HasCurrentSlide /\ HasSelectedObject
    /\ editingTextId # NoId => HasCurrentSlide /\ HasEditingObject

\* A slide switch, a delete, or an undo or redo that moved the cursor.
ClearingStep ==
    \/ lastEvent' \in { "clickSlide", "deleteSelected" }
    \/ lastEvent' \in { "undo", "redo" } /\ historyIndex' # historyIndex

\* C38: in every reachable state the selection and the in-place text-edit
\* target, when not none, identify an object in the annotation sequence of
\* the active slide; switching slides, delete, undo and redo clear them, and
\* an OCR that completes after the active slide changed leaves no selection
\* pointing at an object of another slide.
C38_TargetsOnActiveSlide ==
    /\ []TargetsOnActiveSlide
    /\ [][ClearingStep => selectedObjectId' = NoId /\ editingTextId' = NoId]_vars

\* ---------------------------------------------------------------- C39
\* The pointer went down on an object that was already last in paint order,
\* starting a drag from rest without changing any annotation or the cursor,
\* and has not moved since.
PlainClickPending ==
    /\ lastEvent = "mouseDown" /\ obs.gesture = "drag"
    /\ isDragging /\ ~isPanning /\ activeHandle = NoHandle
    /\ obs.prev = Annotations /\ obs.prevIndex = historyIndex

\* C39: a pointer-down followed by pointer-up with no movement on an object
\* that is already topmost changes no annotation data and leaves the history
\* entries and the cursor unchanged.
C39_PlainClickKeepsHistory ==
    [][PlainClickPending /\ lastEvent' = "mouseUp"
          => /\ Annotations' = Annotations
             /\ HistoryValues' = HistoryValues
             /\ historyIndex' = historyIndex]_vars

\* ---------------------------------------------------------------- C40
\* C40: isScanning is true in every state in which an OCR operation started
\* by a scan gesture has not yet completed or failed, and false when none is
\* pending.
C40_BusyWhileOcrPending == isScanning <=> Len(ocrs) > 0

============================================================================
